---- MODULE Spec2Model ----
(***************************************************************************)
(* A model of the bc-like interpreter: the parser's semantic actions       *)
(* (bc.y) with the MemoryStack and the SemanticContext, the driver rules   *)
(* prog/command, and the tree-walking evaluator (absyn.cpp) with the       *)
(* RuntimeContext.  The evaluator is a small-step machine: `kont' is the   *)
(* C++ call stack of interpret() activations, `ctl' says whether a node is *)
(* about to be interpreted, a value is being returned or an exception is   *)
(* propagating.                                                            *)
(***************************************************************************)
EXTENDS Integers, Sequences, FiniteSets, TLC

VARIABLES
    pc,          \* where the process is: "read", "parse", "eval", "reset", "exited", "crashed", "terminated"
    ncmds,       \* number of commands read so far
    input,       \* the rest of the current command: lexer tokens and reductions still to come
    vstack,      \* the parser's semantic value stack ($1, $2, ...)
    memStack,    \* MemoryStack memStack
    semContext,  \* SemanticContext semContext
    runContext,  \* RuntimeContext runContext
    ctl,         \* evaluator control: [m |-> "idle" | "eval" | "ret" | "throw", x |-> node, value or exception]
    kont,        \* active interpret() frames, innermost last; frame 1 is the command rule's try block
    out,         \* values written to cout since the current command was read
    err,         \* diagnostics written to cerr since the current command was read
    exitStatus,  \* the status passed to exit(), -1 while running
    hist         \* history: names given a global value, m_variables as it was at each active call's entry,
                 \* and the names of the functions that were defined again

vars == <<pc, ncmds, input, vstack, memStack, semContext, runContext, ctl, kont, out, err, exitStatus, hist>>

\* Number of commands the input holds at most.
MaxCmds == 4
\* Largest magnitude of the operands of the arithmetic commands.
MaxOperand == 3

Names == {"x", "y"}

----------------------------------------------------------------------------
\* Sequences and options

None == <<>>
Some(v) == <<v>>
IsSome(o) == o # <<>>
Val(o) == o[1]

Top(s) == s[Len(s)]
Pop(s) == SubSeq(s, 1, Len(s) - 1)
PopN(s, n) == SubSeq(s, 1, Len(s) - n)
SetTop(s, v) == [s EXCEPT ![Len(s)] = v]
InSeq(s, v) == \E i \in 1..Len(s) : s[i] = v

----------------------------------------------------------------------------
\* double: exact rationals <<numerator, denominator>>, denominator > 0, in lowest terms

Abs(n) == IF n < 0 THEN -n ELSE n

RECURSIVE Gcd(_, _)
Gcd(a, b) == IF b = 0 THEN a ELSE Gcd(b, a % b)

Norm(n, d) ==
    LET s == IF d < 0 THEN -1 ELSE 1
        g == Gcd(Abs(n), Abs(d))
    IN  <<(s * n) \div g, (s * d) \div g>>

Num(n) == <<n, 1>>
Zero == Num(0)
Plus(a, b) == Norm(a[1] * b[2] + b[1] * a[2], a[2] * b[2])
Minus(a, b) == Norm(a[1] * b[2] - b[1] * a[2], a[2] * b[2])
Mul(a, b) == Norm(a[1] * b[1], a[2] * b[2])
Div(a, b) == Norm(a[1] * b[2], a[2] * b[1])
\* a variant that leaves the fraction
Floor_none(a) == a
Floor(a) == Num(a[1] \div a[2])
Less(a, b) == a[1] * b[2] < b[1] * a[2]
Max(a, b) == IF Less(a, b) THEN b ELSE a
Bool(b) == IF b THEN Num(1) ELSE Num(0)

RECURSIVE PowInt(_, _)
PowInt(a, n) == IF n <= 0 THEN Num(1) ELSE Mul(a, PowInt(a, n - 1))

\* pow(lhs, e) for an integral e >= 0
Pow(a, e) == PowInt(a, e[1])

----------------------------------------------------------------------------
\* The abstract syntax tree (absyn.h)

ConstantExpression(c) == [k |-> "ConstantExpression", m_constant |-> c]
VariableExpression(name) == [k |-> "VariableExpression", m_name |-> name]
PrefixOpExpression(name, type) == [k |-> "PrefixOpExpression", m_name |-> name, m_type |-> type]
PostfixOpExpression(name, type) == [k |-> "PostfixOpExpression", m_name |-> name, m_type |-> type]
ArithmeticExpression(lhs, rhs, type) ==
    [k |-> "ArithmeticExpression", m_lhs |-> lhs, m_rhs |-> rhs, m_type |-> type]
BooleanExpression(lhs, rhs, type) ==
    [k |-> "BooleanExpression", m_lhs |-> lhs, m_rhs |-> rhs, m_type |-> type]
NegationExpression(expr) == [k |-> "NegationExpression", m_expr |-> expr]
AssignExpression(name, expr) == [k |-> "AssignExpression", m_name |-> name, m_expr |-> expr]
FunctionCallExpression(name, argList) ==
    [k |-> "FunctionCallExpression", m_name |-> name, m_argList |-> argList]
MinusExpression(expr) == [k |-> "MinusExpression", m_expr |-> expr]

ExpressionStatement(expr) == [k |-> "ExpressionStatement", m_expr |-> expr]
\* falseStmt is None for the null pointer
IfStatement(condition, trueStmt, falseStmt) ==
    [k |-> "IfStatement", m_condition |-> condition, m_trueStmt |-> trueStmt, m_falseStmt |-> falseStmt]
WhileStatement(condition, statement) ==
    [k |-> "WhileStatement", m_condition |-> condition, m_statement |-> statement]
BreakStatement == [k |-> "BreakStatement"]
ContinueStatement == [k |-> "ContinueStatement"]
HaltStatement == [k |-> "HaltStatement"]
\* expr is None for the null pointer
ReturnStatement(expr) == [k |-> "ReturnStatement", m_expr |-> expr]
StatementList(statements) == [k |-> "StatementList", m_statements |-> statements]
FunctionDefinition(name, args, autos, commands) ==
    [k |-> "FunctionDefinition", m_name |-> name, m_args |-> args, m_autos |-> autos, m_commands |-> commands]

\* StatementList::addStatement
addStatement(list, statement) == StatementList(Append(list.m_statements, statement))

\* AbsExpression::shouldDisplayResult of each class
\* a variant that displays every result
shouldDisplayResult_always(expr) == TRUE
shouldDisplayResult(expr) == expr.k # "AssignExpression"

----------------------------------------------------------------------------
\* MemoryStack

EmptyMemoryStack ==
    [m_pointerTypes |-> <<>>, m_absynPointers |-> <<>>, m_charListPointers |-> <<>>,
     m_absExprListPointers |-> <<>>, m_charPointers |-> <<>>]

\* The stack that holds the pointers of a type
StackOf(type) ==
    CASE type = "AbsynPointer" -> "m_absynPointers"
      [] type = "CharListPointer" -> "m_charListPointers"
      [] type = "AbsExprListPointer" -> "m_absExprListPointers"

MemoryStack_push(ms, type, pointer) ==
    [ms EXCEPT ![StackOf(type)] = Append(@, pointer),
               !.m_pointerTypes = Append(@, type)]

MemoryStack_pop(ms) ==
    [ms EXCEPT ![StackOf(Top(ms.m_pointerTypes))] = Pop(@),
               !.m_pointerTypes = Pop(@)]

RECURSIVE MemoryStack_popNum(_, _)
MemoryStack_popNum(ms, num) ==
    IF num = 0 THEN ms ELSE MemoryStack_popNum(MemoryStack_pop(ms), num - 1)

MemoryStack_popAndPush(ms, num, type, pointer) ==
    MemoryStack_push(MemoryStack_popNum(ms, num), type, pointer)

MemoryStack_addString(ms, charPointer) ==
    [ms EXCEPT !.m_charPointers = <<charPointer>> \o @]

\* erases the first element that is the pointer
MemoryStack_useString(ms, charPointer) ==
    LET l == ms.m_charPointers
        hits == {i \in 1..Len(l) : l[i] = charPointer}
    IN  IF hits = {} THEN ms
        ELSE LET i == CHOOSE j \in hits : \A h \in hits : j <= h
             IN  [ms EXCEPT !.m_charPointers = SubSeq(l, 1, i - 1) \o SubSeq(l, i + 1, Len(l))]

MemoryStack_freeAll(ms) ==
    [ms EXCEPT !.m_absynPointers = <<>>,
               !.m_charListPointers = <<>>,
               !.m_absExprListPointers = <<>>,
               !.m_charPointers = <<>>]

\* A list object the tracker points to has grown (push_back, addStatement):
\* the tracked pointer, the newest of its stack, now shows the new contents.
Mutated(ms, type, pointer) ==
    IF ms[StackOf(type)] = <<>> THEN ms
    ELSE [ms EXCEPT ![StackOf(type)] = SetTop(@, pointer)]

----------------------------------------------------------------------------
\* SemanticContext

SemanticContext_reset ==
    [m_inFunction |-> FALSE, m_funcArgs |-> None, m_while |-> 0, m_error |-> FALSE]

\* a variant that does not note the start of a function definition
SemanticContext_enterFunction_none(sc) == sc
SemanticContext_enterFunction(sc) == [sc EXCEPT !.m_inFunction = TRUE]
SemanticContext_setFunctionArguments(sc, funcArgs) == [sc EXCEPT !.m_funcArgs = Some(funcArgs)]
SemanticContext_exitFunction(sc) == [sc EXCEPT !.m_inFunction = FALSE, !.m_funcArgs = None]
SemanticContext_enterWhile(sc) == [sc EXCEPT !.m_while = @ + 1]
SemanticContext_exitWhile(sc) == [sc EXCEPT !.m_while = @ - 1]
\* a variant that takes every place for the inside of a loop
isInWhile_anywhere(sc) == TRUE

isInWhile(sc) == sc.m_while > 0
isInFunction(sc) == sc.m_inFunction
\* a variant that reports no error
detectedError_never(sc) == FALSE

detectedError(sc) == sc.m_error

isStringInList(stringlist, string) == InSeq(stringlist, string)

\* A line on cerr
Diagnostic(type, func, text, arg) == [type |-> type, func |-> func, text |-> text, arg |-> arg]

\* SemanticContext::printError
printError(error) == Diagnostic("semantic error", "", error, "")

\* Each check gives the context and the diagnostics it printed
checkBreak(sc) ==
    IF ~isInWhile(sc)
    THEN [sc |-> [sc EXCEPT !.m_error = TRUE], msg |-> <<printError("break outside while")>>]
    ELSE [sc |-> sc, msg |-> <<>>]

checkContinue(sc) ==
    IF ~isInWhile(sc)
    THEN [sc |-> [sc EXCEPT !.m_error = TRUE], msg |-> <<printError("continue outside while")>>]
    ELSE [sc |-> sc, msg |-> <<>>]

checkReturn(sc) ==
    IF ~isInFunction(sc)
    THEN [sc |-> [sc EXCEPT !.m_error = TRUE], msg |-> <<printError("return outside function definition")>>]
    ELSE [sc |-> sc, msg |-> <<>>]

DuplicateName == printError("duplicate name in parameter or auto variable list")

\* a variant that looks for the name in the list at hand only
checkFunctionVariable_listOnly(sc, currVariableList, nextVar) ==
    IF isStringInList(currVariableList, nextVar)
    THEN [sc |-> [sc EXCEPT !.m_error = TRUE], msg |-> <<DuplicateName>>]
    ELSE [sc |-> sc, msg |-> <<>>]

checkFunctionVariable(sc, currVariableList, nextVar) ==
    IF isStringInList(currVariableList, nextVar)
    THEN [sc |-> [sc EXCEPT !.m_error = TRUE], msg |-> <<DuplicateName>>]
    ELSE IF IsSome(sc.m_funcArgs) /\ isStringInList(Val(sc.m_funcArgs), nextVar)
         THEN [sc |-> [sc EXCEPT !.m_error = TRUE], msg |-> <<DuplicateName>>]
         ELSE [sc |-> sc, msg |-> <<>>]

----------------------------------------------------------------------------
\* RuntimeContext

EmptyRuntimeContext ==
    [m_functionTable |-> <<>>, m_variables |-> <<>>, m_callStack |-> <<>>]

\* The values top() of an empty stack may give
Garbage == {Num(0), Num(7)}

\* m_variables holds the name with an empty stack: top() is undefined
readsEmptyStack(rc, name) ==
    name \in DOMAIN rc.m_variables /\ rc.m_variables[name] = <<>>

\* the values getVariable may return
getVariable(rc, name) ==
    IF name \in DOMAIN rc.m_variables
    THEN IF rc.m_variables[name] # <<>> THEN {Top(rc.m_variables[name])} ELSE Garbage
    ELSE {Zero}

\* m_variables[name]: the entry is created, empty, when the map has none
Entry(variables, name) == IF name \in DOMAIN variables THEN variables[name] ELSE <<>>

Store(variables, name, stack) ==
    [n \in DOMAIN variables \cup {name} |-> IF n = name THEN stack ELSE variables[n]]

\* a variant that pushes a binding whatever the stack holds
setVariable_pushes(rc, name, value) ==
    [rc EXCEPT !.m_variables = Store(@, name, Append(Entry(@, name), value))]

setVariable(rc, name, value) ==
    LET variable == Entry(rc.m_variables, name)
    IN  [rc EXCEPT !.m_variables =
            Store(@, name, IF variable = <<>> THEN <<value>> ELSE SetTop(variable, value))]

\* a variant that stores into the binding in place instead of pushing one
addVariable_overwrites(rc, name, value) ==
    setVariable(rc, name, value)

addVariable(rc, name, value) ==
    [rc EXCEPT !.m_variables = Store(@, name, Append(Entry(@, name), value))]

delVariable(rc, name) ==
    [rc EXCEPT !.m_variables = Store(@, name, Pop(Entry(@, name)))]

\* a variant that keeps the definition the table has
addFunctionDefinition_keepsFirst(rc, definition) ==
    IF definition.m_name \in DOMAIN rc.m_functionTable THEN rc
    ELSE [rc EXCEPT !.m_functionTable =
              [n \in DOMAIN @ \cup {definition.m_name} |->
                  IF n = definition.m_name THEN definition ELSE @[n]]]

addFunctionDefinition(rc, definition) ==
    [rc EXCEPT !.m_functionTable =
        [n \in DOMAIN @ \cup {definition.m_name} |-> IF n = definition.m_name THEN definition ELSE @[n]]]

\* None for NULL
getFunctionDefinition(rc, name) ==
    IF name \in DOMAIN rc.m_functionTable THEN Some(rc.m_functionTable[name]) ELSE None

RECURSIVE addVariables(_, _, _)
addVariables(rc, names, values) ==
    IF names = <<>> \/ values = <<>> THEN rc
    ELSE addVariables(addVariable(rc, Head(names), Head(values)), Tail(names), Tail(values))

RECURSIVE addAutos(_, _)
addAutos(rc, autovars) ==
    IF autovars = <<>> THEN rc
    ELSE addAutos(addVariable(rc, Head(autovars), Zero), Tail(autovars))

RECURSIVE delVariables(_, _)
delVariables(rc, names) ==
    IF names = <<>> THEN rc
    ELSE delVariables(delVariable(rc, Head(names)), Tail(names))

\* a variant that hands the values to the parameters from the last to the first
enterFunction_lastFirst(rc, function, argValues) ==
    LET n == Len(argValues)
        withParams == addVariables(rc, function.m_args, [i \in 1..n |-> argValues[n + 1 - i]])
        withAutos == addAutos(withParams, function.m_autos)
    IN  [withAutos EXCEPT !.m_callStack = Append(@, function)]

enterFunction(rc, function, argValues) ==
    LET withParams == addVariables(rc, function.m_args, argValues)
        withAutos == addAutos(withParams, function.m_autos)
    IN  [withAutos EXCEPT !.m_callStack = Append(@, function)]

\* a variant that leaves the auto variables behind
exitFunction_keepsAutos(rc) ==
    LET function == Top(rc.m_callStack)
        popped == [rc EXCEPT !.m_callStack = Pop(@)]
    IN  delVariables(popped, function.m_args)

exitFunction(rc) ==
    LET function == Top(rc.m_callStack)
        popped == [rc EXCEPT !.m_callStack = Pop(@)]
    IN  delVariables(delVariables(popped, function.m_autos), function.m_args)

\* Exceptions: [type, value (of a return), message (of a runtime error)]
Exception(type, value, message) == [type |-> type, value |-> value, message |-> message]
BreakFlowException == Exception("BreakFlowException", Zero, None)
ContinueFlowException == Exception("ContinueFlowException", Zero, None)
HaltFlowException == Exception("HaltFlowException", Zero, None)
\* a variant that carries no value
ReturnFlowException_noValue(value) == Exception("ReturnFlowException", Zero, None)
ReturnFlowException(value) == Exception("ReturnFlowException", value, None)

\* a variant that names the function at the bottom of the call stack
throwError_outermost(rc, errmessage, arg) ==
    LET currFunc == IF rc.m_callStack = <<>> THEN "(main)" ELSE rc.m_callStack[1].m_name
    IN  Exception("RuntimeException", Zero, Some(Diagnostic("runtime error", currFunc, errmessage, arg)))

\* the exception throwError throws
throwError(rc, errmessage, arg) ==
    LET currFunc == IF rc.m_callStack = <<>> THEN "(main)" ELSE Top(rc.m_callStack).m_name
    IN  Exception("RuntimeException", Zero, Some(Diagnostic("runtime error", currFunc, errmessage, arg)))

----------------------------------------------------------------------------
\* The parser's semantic actions (bc.y).  An input event is a NAME token of
\* the lexer or a reduction [r |-> rule, a |-> the token value or operator it
\* carries], in the order in which the LALR parser performs them.  Each rule
\* operator gives the value stack, the tracker, the semantic context and
\* the diagnostics after the rule's action.

Parsed(vs, ms, sc, msg) == [vs |-> vs, ms |-> ms, sc |-> sc, msg |-> msg]

ExpressionRules ==
    {"expr_NUMBER", "expr_NAME", "expr_INCR_NAME", "expr_DECR_NAME", "expr_NAME_INCR",
     "expr_NAME_DECR", "expr_arith", "expr_bool", "expr_NOT", "expr_paren", "expr_ASSIGN",
     "expr_opASSIGN", "expr_call", "expr_UMINUS"}
ExpressionListRules == {"exprlist_empty", "exprlist_expression", "exprlist_COMMA_expression"}
StatementRules ==
    {"stmt_expression", "stmt_block", "stmt_IF", "stmt_IF_ELSE", "WHILE", "stmt_WHILE",
     "stmt_HALT", "stmt_BREAK", "stmt_CONTINUE", "stmt_RETURN", "stmt_RETURN_expression"}
StatementListRules == {"list_empty", "list_statement", "list_separator", "list_append"}
VariableListRules == {"optlist_empty", "varlist_NAME", "varlist_COMMA_NAME", "optautolist_AUTO"}
FuncdefRules == {"DEFINE", "setFunctionArguments", "exitFunction", "funcdef"}

\* a variant of the rule funcdef that takes an auto list before the brace
optnewline_LBRACE_orAUTO(tokens) ==
    tokens \in {<<"LBRACE">>, <<"NEWLINE", "LBRACE">>, <<"AUTO">>}

\* funcdef, between the parameter list and the body: the tokens the parser
\* reads after RPAREN, up to the first it cannot shift, are optnewline LBRACE
optnewline_LBRACE(tokens) == tokens \in {<<"LBRACE">>, <<"NEWLINE", "LBRACE">>}

\* copystring of the lexer: the NAME token's string is registered and becomes the token's value
copystring(name, vs, ms, sc) ==
    Parsed(Append(vs, name), MemoryStack_addString(ms, name), sc, <<>>)

expression(e, vs, ms, sc) ==
    LET n == Len(vs)
        Leaf(node) ==
            Parsed(SetTop(vs, node),
                   MemoryStack_push(MemoryStack_useString(ms, vs[n]), "AbsynPointer", node), sc, <<>>)
        Binary(node) ==
            Parsed(Append(PopN(vs, 2), node), MemoryStack_popAndPush(ms, 2, "AbsynPointer", node), sc, <<>>)
        Named(node) ==
            Parsed(Append(PopN(vs, 2), node),
                   MemoryStack_popAndPush(MemoryStack_useString(ms, vs[n - 1]), 1, "AbsynPointer", node),
                   sc, <<>>)
    IN  CASE e.r = "expr_NUMBER" ->
               LET node == ConstantExpression(e.a)
               IN  Parsed(Append(vs, node), MemoryStack_push(ms, "AbsynPointer", node), sc, <<>>)
          [] e.r = "expr_NAME" -> Leaf(VariableExpression(vs[n]))
          [] e.r = "expr_INCR_NAME" -> Leaf(PrefixOpExpression(vs[n], "OP_INCR"))
          [] e.r = "expr_DECR_NAME" -> Leaf(PrefixOpExpression(vs[n], "OP_DECR"))
          [] e.r = "expr_NAME_INCR" -> Leaf(PostfixOpExpression(vs[n], "OP_INCR"))
          [] e.r = "expr_NAME_DECR" -> Leaf(PostfixOpExpression(vs[n], "OP_DECR"))
          [] e.r = "expr_arith" -> Binary(ArithmeticExpression(vs[n - 1], vs[n], e.a))
          [] e.r = "expr_bool" -> Binary(BooleanExpression(vs[n - 1], vs[n], e.a))
          [] e.r = "expr_NOT" ->
               LET node == NegationExpression(vs[n])
               IN  Parsed(SetTop(vs, node), MemoryStack_popAndPush(ms, 1, "AbsynPointer", node), sc, <<>>)
          [] e.r = "expr_paren" -> Parsed(vs, ms, sc, <<>>)
          [] e.r = "expr_ASSIGN" -> Named(AssignExpression(vs[n - 1], vs[n]))
          [] e.r = "expr_opASSIGN" ->
               Named(AssignExpression(vs[n - 1],
                        ArithmeticExpression(VariableExpression(vs[n - 1]), vs[n], e.a)))
          [] e.r = "expr_call" -> Named(FunctionCallExpression(vs[n - 1], vs[n]))
          [] e.r = "expr_UMINUS" -> Parsed(SetTop(vs, MinusExpression(vs[n])), ms, sc, <<>>)

\* optexpressionlist and expressionlist
expressionlist(e, vs, ms, sc) ==
    LET n == Len(vs)
    IN  CASE e.r = "exprlist_empty" ->
               Parsed(Append(vs, <<>>), MemoryStack_push(ms, "AbsExprListPointer", <<>>), sc, <<>>)
          [] e.r = "exprlist_expression" ->
               Parsed(SetTop(vs, <<vs[n]>>),
                      MemoryStack_popAndPush(ms, 1, "AbsExprListPointer", <<vs[n]>>), sc, <<>>)
          [] e.r = "exprlist_COMMA_expression" ->
               LET list == Append(vs[n - 1], vs[n])
               IN  Parsed(Append(PopN(vs, 2), list),
                          Mutated(MemoryStack_pop(ms), "AbsExprListPointer", list), sc, <<>>)

statement(e, vs, ms, sc) ==
    LET n == Len(vs)
        New(node, check) ==
            Parsed(Append(vs, node), MemoryStack_push(ms, "AbsynPointer", node), check.sc, check.msg)
        NoCheck == [sc |-> sc, msg |-> <<>>]
    IN  CASE e.r = "stmt_expression" ->
               LET node == ExpressionStatement(vs[n])
               IN  Parsed(SetTop(vs, node), MemoryStack_popAndPush(ms, 1, "AbsynPointer", node), sc, <<>>)
          [] e.r = "stmt_block" -> Parsed(vs, ms, sc, <<>>)
          [] e.r = "stmt_IF" ->
               LET node == IfStatement(vs[n - 1], vs[n], None)
               IN  Parsed(Append(PopN(vs, 2), node),
                          MemoryStack_popAndPush(ms, 2, "AbsynPointer", node), sc, <<>>)
          [] e.r = "stmt_IF_ELSE" ->
               LET node == IfStatement(vs[n - 2], vs[n - 1], Some(vs[n]))
               IN  Parsed(Append(PopN(vs, 3), node),
                          MemoryStack_popAndPush(ms, 3, "AbsynPointer", node), sc, <<>>)
          [] e.r = "WHILE" -> Parsed(vs, ms, SemanticContext_enterWhile(sc), <<>>)
          [] e.r = "stmt_WHILE" ->
               LET node == WhileStatement(vs[n - 1], vs[n])
               IN  Parsed(Append(PopN(vs, 2), node),
                          MemoryStack_popAndPush(ms, 2, "AbsynPointer", node),
                          SemanticContext_exitWhile(sc), <<>>)
          [] e.r = "stmt_HALT" -> New(HaltStatement, NoCheck)
          [] e.r = "stmt_BREAK" -> New(BreakStatement, checkBreak(sc))
          [] e.r = "stmt_CONTINUE" -> New(ContinueStatement, checkContinue(sc))
          [] e.r = "stmt_RETURN" -> New(ReturnStatement(None), checkReturn(sc))
          [] e.r = "stmt_RETURN_expression" ->
               LET node == ReturnStatement(Some(vs[n]))
                   check == checkReturn(sc)
               IN  Parsed(SetTop(vs, node), MemoryStack_popAndPush(ms, 1, "AbsynPointer", node),
                          check.sc, check.msg)

\* statementline and statementmultiline, whose rules have the same actions
statementline(e, vs, ms, sc) ==
    LET n == Len(vs)
    IN  CASE e.r = "list_empty" ->
               LET node == StatementList(<<>>)
               IN  Parsed(Append(vs, node), MemoryStack_push(ms, "AbsynPointer", node), sc, <<>>)
          [] e.r = "list_statement" ->
               LET node == StatementList(<<vs[n]>>)
               IN  Parsed(SetTop(vs, node), MemoryStack_popAndPush(ms, 1, "AbsynPointer", node), sc, <<>>)
          [] e.r = "list_separator" -> Parsed(vs, ms, sc, <<>>)
          [] e.r = "list_append" ->
               LET node == addStatement(vs[n - 1], vs[n])
               IN  Parsed(Append(PopN(vs, 2), node),
                          Mutated(MemoryStack_pop(ms), "AbsynPointer", node), sc, <<>>)

\* optvariablelist, optautolist and variablelist
variablelist(e, vs, ms, sc) ==
    LET n == Len(vs)
    IN  CASE e.r = "optlist_empty" ->
               Parsed(Append(vs, <<>>), MemoryStack_push(ms, "CharListPointer", <<>>), sc, <<>>)
          [] e.r = "optautolist_AUTO" -> Parsed(vs, ms, sc, <<>>)
          [] e.r = "varlist_NAME" ->
               LET pushed == MemoryStack_push(ms, "CharListPointer", <<>>)
                   check == checkFunctionVariable(sc, <<>>, vs[n])
                   list == <<vs[n]>>
               IN  Parsed(SetTop(vs, list),
                          MemoryStack_useString(Mutated(pushed, "CharListPointer", list), vs[n]),
                          check.sc, check.msg)
          [] e.r = "varlist_COMMA_NAME" ->
               LET check == checkFunctionVariable(sc, vs[n - 1], vs[n])
                   list == Append(vs[n - 1], vs[n])
               IN  Parsed(Append(PopN(vs, 2), list),
                          MemoryStack_useString(Mutated(ms, "CharListPointer", list), vs[n]),
                          check.sc, check.msg)

\* funcdef: its three mid-rule actions and its final action
funcdef(e, vs, ms, sc) ==
    LET n == Len(vs)
    IN  CASE e.r = "DEFINE" -> Parsed(vs, ms, SemanticContext_enterFunction(sc), <<>>)
          [] e.r = "setFunctionArguments" ->
               Parsed(vs, ms, SemanticContext_setFunctionArguments(sc, vs[n]), <<>>)
          [] e.r = "exitFunction" -> Parsed(vs, ms, SemanticContext_exitFunction(sc), <<>>)
          [] e.r = "funcdef" ->
               LET node == FunctionDefinition(vs[n - 3], vs[n - 2], vs[n - 1], vs[n])
               IN  Parsed(Append(PopN(vs, 4), node),
                          MemoryStack_popAndPush(MemoryStack_useString(ms, vs[n - 3]), 3,
                                                 "AbsynPointer", node),
                          sc, <<>>)

----------------------------------------------------------------------------
\* The evaluator (absyn.cpp): control, frames and the results of the operators

Eval(node) == [m |-> "eval", x |-> node]
Ret(value) == [m |-> "ret", x |-> value]
Throw(exception) == [m |-> "throw", x |-> exception]
Idle == [m |-> "idle", x |-> <<>>]

\* An activation of node's interpret(): ph is the place it waits at, loc its
\* local values, fn its local functionDef (None when it has none)
Frame(node, ph, loc, fn) == [node |-> node, ph |-> ph, loc |-> loc, fn |-> fn]

\* the try block of the rule command : statementline NEWLINE
CommandFrame == Frame([k |-> "command"], "try", <<>>, None)

Entering(class) == pc = "eval" /\ ctl.m = "eval" /\ ctl.x.k = class
Resuming(class, ph) ==
    pc = "eval" /\ ctl.m = "ret" /\ Top(kont).node.k = class /\ Top(kont).ph = ph
Catching(class, ph) ==
    pc = "eval" /\ ctl.m = "throw" /\ Top(kont).node.k = class /\ Top(kont).ph = ph

\* a variant that divides without looking at the divisor
ArithmeticResult_unchecked(rc, type, lhs, rhs) ==
    CASE type = "OP_PLUS" -> Ret(Plus(lhs, rhs))
      [] type = "OP_MINUS" -> Ret(Minus(lhs, rhs))
      [] type = "OP_MUL" -> Ret(Mul(lhs, rhs))
      [] type = "OP_DIV" -> Ret(IF rhs = Zero THEN Zero ELSE Div(lhs, rhs))
      [] type = "OP_MOD" ->
           Ret(IF rhs = Zero THEN Zero ELSE Minus(lhs, Mul(Floor(Div(lhs, rhs)), rhs)))
      [] type = "OP_POW" -> Ret(Pow(lhs, Max(Zero, Floor(rhs))))

\* a variant whose remainder comes from the quotient rounded towards zero
ArithmeticResult_truncates(rc, type, lhs, rhs) ==
    CASE type = "OP_PLUS" -> Ret(Plus(lhs, rhs))
      [] type = "OP_MINUS" -> Ret(Minus(lhs, rhs))
      [] type = "OP_MUL" -> Ret(Mul(lhs, rhs))
      [] type = "OP_DIV" ->
           IF rhs = Zero THEN Throw(throwError(rc, "division by zero", ""))
           ELSE Ret(Div(lhs, rhs))
      [] type = "OP_MOD" ->
           IF rhs = Zero THEN Throw(throwError(rc, "modulo zero", ""))
           ELSE LET q == Div(lhs, rhs)
                    truncated == IF q[1] < 0 THEN Num(-((-q[1]) \div q[2])) ELSE Floor(q)
                IN  Ret(Minus(lhs, Mul(truncated, rhs)))
      [] type = "OP_POW" -> Ret(Pow(lhs, Max(Zero, Floor(rhs))))

\* what the switch of ArithmeticExpression::interpret leads to
ArithmeticResult(rc, type, lhs, rhs) ==
    CASE type = "OP_PLUS" -> Ret(Plus(lhs, rhs))
      [] type = "OP_MINUS" -> Ret(Minus(lhs, rhs))
      [] type = "OP_MUL" -> Ret(Mul(lhs, rhs))
      [] type = "OP_DIV" ->
           IF rhs = Zero THEN Throw(throwError(rc, "division by zero", ""))
           ELSE Ret(Div(lhs, rhs))
      [] type = "OP_MOD" ->
           IF rhs = Zero THEN Throw(throwError(rc, "modulo zero", ""))
           ELSE Ret(Minus(lhs, Mul(Floor(Div(lhs, rhs)), rhs)))
      [] type = "OP_POW" -> Ret(Pow(lhs, Max(Zero, Floor(rhs))))

\* the switch of BooleanExpression::interpret
BooleanResult(type, lhs, rhs) ==
    CASE type = "OP_LT" -> Bool(Less(lhs, rhs))
      [] type = "OP_LE" -> Bool(~Less(rhs, lhs))
      [] type = "OP_GT" -> Bool(Less(rhs, lhs))
      [] type = "OP_GE" -> Bool(~Less(lhs, rhs))
      [] type = "OP_EQ" -> Bool(lhs = rhs)
      [] type = "OP_NE" -> Bool(lhs # rhs)
      [] type = "OP_AND" -> Bool(lhs # Zero /\ rhs # Zero)
      [] type = "OP_OR" -> Bool(lhs # Zero \/ rhs # Zero)

\* the switch of PrefixOpExpression::interpret and PostfixOpExpression::interpret
Stepped(type, value) == IF type = "OP_INCR" THEN Plus(value, Num(1)) ELSE Minus(value, Num(1))

\* history: setVariable on an empty stack gives the name its global value
NoteGlobal(h, rc, name) ==
    IF Entry(rc.m_variables, name) = <<>> THEN [h EXCEPT !.globals = @ \cup {name}] ELSE h
NoteEntry(h, rc) == [h EXCEPT !.entry = Append(@, rc.m_variables)]
NoteExit(h) == [h EXCEPT !.entry = Pop(@)]
\* history: addFunctionDefinition finds a definition of the name in the table
NoteDefinition(h, rc, definition) ==
    IF definition.m_name \in DOMAIN rc.m_functionTable
    THEN [h EXCEPT !.replaced = @ \cup {definition.m_name}] ELSE h

\* a step of the evaluator
Step(c, k, rc, o, h) ==
    /\ ctl' = c
    /\ kont' = k
    /\ runContext' = rc
    /\ out' = o
    /\ hist' = h
    /\ UNCHANGED <<pc, ncmds, input, vstack, memStack, semContext, err, exitStatus>>

Invoke(node, ph, loc, fn) == Append(kont, Frame(node, ph, loc, fn))
Goto(ph, loc) == SetTop(kont, [Top(kont) EXCEPT !.ph = ph, !.loc = loc])

ConstantExpression_interpret ==
    /\ Entering("ConstantExpression")
    /\ Step(Ret(ctl.x.m_constant), kont, runContext, out, hist)

VariableExpression_interpret ==
    /\ Entering("VariableExpression")
    /\ \E value \in getVariable(runContext, ctl.x.m_name) :
          Step(Ret(value), kont, runContext, out, hist)

PrefixOpExpression_interpret ==
    /\ Entering("PrefixOpExpression")
    /\ \E read \in getVariable(runContext, ctl.x.m_name) :
          LET value == Stepped(ctl.x.m_type, read)
          IN  Step(Ret(value), kont, setVariable(runContext, ctl.x.m_name, value), out,
                   NoteGlobal(hist, runContext, ctl.x.m_name))

PostfixOpExpression_interpret ==
    /\ Entering("PostfixOpExpression")
    /\ \E oldvalue \in getVariable(runContext, ctl.x.m_name) :
          LET newvalue == Stepped(ctl.x.m_type, oldvalue)
          IN  Step(Ret(oldvalue), kont, setVariable(runContext, ctl.x.m_name, newvalue), out,
                   NoteGlobal(hist, runContext, ctl.x.m_name))

\* top() of an empty stack in getVariable ends the process
getVariable_crash ==
    /\ pc = "eval" /\ ctl.m = "eval"
    /\ ctl.x.k \in {"VariableExpression", "PrefixOpExpression", "PostfixOpExpression"}
    /\ readsEmptyStack(runContext, ctl.x.m_name)
    /\ pc' = "crashed"
    /\ UNCHANGED <<ncmds, input, vstack, memStack, semContext, runContext, ctl, kont, out, err,
                   exitStatus, hist>>

\* a variant that evaluates the right-hand side first
ArithmeticExpression_interpret_rhsFirst ==
    \/ /\ Entering("ArithmeticExpression")
       /\ Step(Eval(ctl.x.m_rhs), Invoke(ctl.x, "lhs", <<>>, None), runContext, out, hist)
    \/ /\ Resuming("ArithmeticExpression", "lhs")
       /\ Step(Eval(Top(kont).node.m_lhs), Goto("rhs", <<ctl.x>>), runContext, out, hist)
    \/ /\ Resuming("ArithmeticExpression", "rhs")
       /\ Step(ArithmeticResult(runContext, Top(kont).node.m_type, ctl.x, Top(kont).loc[1]),
               Pop(kont), runContext, out, hist)

ArithmeticExpression_interpret ==
    \/ /\ Entering("ArithmeticExpression")
       /\ Step(Eval(ctl.x.m_lhs), Invoke(ctl.x, "lhs", <<>>, None), runContext, out, hist)
    \/ /\ Resuming("ArithmeticExpression", "lhs")
       /\ Step(Eval(Top(kont).node.m_rhs), Goto("rhs", <<ctl.x>>), runContext, out, hist)
    \/ /\ Resuming("ArithmeticExpression", "rhs")
       /\ Step(ArithmeticResult(runContext, Top(kont).node.m_type, Top(kont).loc[1], ctl.x),
               Pop(kont), runContext, out, hist)

\* a variant in which && and || skip the right-hand side when the left decides
BooleanExpression_interpret_shortCircuit ==
    \/ /\ Entering("BooleanExpression")
       /\ Step(Eval(ctl.x.m_lhs), Invoke(ctl.x, "lhs", <<>>, None), runContext, out, hist)
    \/ /\ Resuming("BooleanExpression", "lhs")
       /\ IF Top(kont).node.m_type = "OP_AND" /\ ctl.x = Zero
          THEN Step(Ret(Num(0)), Pop(kont), runContext, out, hist)
          ELSE IF Top(kont).node.m_type = "OP_OR" /\ ctl.x # Zero
          THEN Step(Ret(Num(1)), Pop(kont), runContext, out, hist)
          ELSE Step(Eval(Top(kont).node.m_rhs), Goto("rhs", <<ctl.x>>), runContext, out, hist)
    \/ /\ Resuming("BooleanExpression", "rhs")
       /\ Step(Ret(BooleanResult(Top(kont).node.m_type, Top(kont).loc[1], ctl.x)),
               Pop(kont), runContext, out, hist)

BooleanExpression_interpret ==
    \/ /\ Entering("BooleanExpression")
       /\ Step(Eval(ctl.x.m_lhs), Invoke(ctl.x, "lhs", <<>>, None), runContext, out, hist)
    \/ /\ Resuming("BooleanExpression", "lhs")
       /\ Step(Eval(Top(kont).node.m_rhs), Goto("rhs", <<ctl.x>>), runContext, out, hist)
    \/ /\ Resuming("BooleanExpression", "rhs")
       /\ Step(Ret(BooleanResult(Top(kont).node.m_type, Top(kont).loc[1], ctl.x)),
               Pop(kont), runContext, out, hist)

NegationExpression_interpret ==
    \/ /\ Entering("NegationExpression")
       /\ Step(Eval(ctl.x.m_expr), Invoke(ctl.x, "expr", <<>>, None), runContext, out, hist)
    \/ /\ Resuming("NegationExpression", "expr")
       /\ Step(Ret(Bool(~(ctl.x # Zero))), Pop(kont), runContext, out, hist)

MinusExpression_interpret ==
    \/ /\ Entering("MinusExpression")
       /\ Step(Eval(ctl.x.m_expr), Invoke(ctl.x, "expr", <<>>, None), runContext, out, hist)
    \/ /\ Resuming("MinusExpression", "expr")
       /\ Step(Ret(Minus(Zero, ctl.x)), Pop(kont), runContext, out, hist)

AssignExpression_interpret ==
    \/ /\ Entering("AssignExpression")
       /\ Step(Eval(ctl.x.m_expr), Invoke(ctl.x, "expr", <<>>, None), runContext, out, hist)
    \/ /\ Resuming("AssignExpression", "expr")
       /\ Step(Ret(ctl.x), Pop(kont), setVariable(runContext, Top(kont).node.m_name, ctl.x), out,
               NoteGlobal(hist, runContext, Top(kont).node.m_name))

\* context->enterFunction and the start of the body
EnterBody(node, functionDef, argumentValues, frames) ==
    Step(Eval(functionDef.m_commands),
         Append(frames, Frame(node, "body", argumentValues, Some(functionDef))),
         enterFunction(runContext, functionDef, argumentValues), out, NoteEntry(hist, runContext))

\* a variant that looks for the function after it has evaluated the arguments
FunctionCallExpression_interpret_argsFirst ==
    \/ /\ Entering("FunctionCallExpression")
       /\ LET functionDef == getFunctionDefinition(runContext, ctl.x.m_name)
          IN  IF ctl.x.m_argList # <<>>
              THEN Step(Eval(ctl.x.m_argList[1]), Invoke(ctl.x, "args", <<>>, functionDef),
                        runContext, out, hist)
              ELSE IF ~IsSome(functionDef)
              THEN Step(Throw(throwError(runContext, "function not defined", ctl.x.m_name)),
                        kont, runContext, out, hist)
              ELSE IF Len(Val(functionDef).m_args) # 0
              THEN Step(Throw(throwError(runContext, "wrong number of arguments for function",
                                         ctl.x.m_name)),
                        kont, runContext, out, hist)
              ELSE EnterBody(ctl.x, Val(functionDef), <<>>, kont)
    \/ /\ Resuming("FunctionCallExpression", "args")
       /\ LET argumentValues == Append(Top(kont).loc, ctl.x)
              node == Top(kont).node
              functionDef == Top(kont).fn
          IN  IF Len(argumentValues) < Len(node.m_argList)
              THEN Step(Eval(node.m_argList[Len(argumentValues) + 1]), Goto("args", argumentValues),
                        runContext, out, hist)
              ELSE IF ~IsSome(functionDef)
              THEN Step(Throw(throwError(runContext, "function not defined", node.m_name)),
                        Pop(kont), runContext, out, hist)
              ELSE IF Len(Val(functionDef).m_args) # Len(node.m_argList)
              THEN Step(Throw(throwError(runContext, "wrong number of arguments for function",
                                         node.m_name)),
                        Pop(kont), runContext, out, hist)
              ELSE EnterBody(node, Val(functionDef), argumentValues, Pop(kont))
    \/ /\ Resuming("FunctionCallExpression", "body")
       /\ Step(Ret(Zero), Pop(kont), exitFunction(runContext), out, NoteExit(hist))
    \/ /\ Catching("FunctionCallExpression", "body")
       /\ Step(IF ctl.x.type = "ReturnFlowException" THEN Ret(ctl.x.value) ELSE ctl,
               Pop(kont), exitFunction(runContext), out, NoteExit(hist))

FunctionCallExpression_interpret ==
    \/ /\ Entering("FunctionCallExpression")
       /\ LET functionDef == getFunctionDefinition(runContext, ctl.x.m_name)
          IN  IF ~IsSome(functionDef)
              THEN Step(Throw(throwError(runContext, "function not defined", ctl.x.m_name)),
                        kont, runContext, out, hist)
              ELSE IF Len(Val(functionDef).m_args) # Len(ctl.x.m_argList)
              THEN Step(Throw(throwError(runContext, "wrong number of arguments for function",
                                         ctl.x.m_name)),
                        kont, runContext, out, hist)
              ELSE IF ctl.x.m_argList = <<>>
              THEN EnterBody(ctl.x, Val(functionDef), <<>>, kont)
              ELSE Step(Eval(ctl.x.m_argList[1]), Invoke(ctl.x, "args", <<>>, functionDef),
                        runContext, out, hist)
    \/ /\ Resuming("FunctionCallExpression", "args")
       /\ LET argumentValues == Append(Top(kont).loc, ctl.x)
              node == Top(kont).node
          IN  IF Len(argumentValues) < Len(node.m_argList)
              THEN Step(Eval(node.m_argList[Len(argumentValues) + 1]), Goto("args", argumentValues),
                        runContext, out, hist)
              ELSE EnterBody(node, Val(Top(kont).fn), argumentValues, Pop(kont))
    \/ /\ Resuming("FunctionCallExpression", "body")
       /\ Step(Ret(Zero), Pop(kont), exitFunction(runContext), out, NoteExit(hist))
    \/ /\ Catching("FunctionCallExpression", "body")
       /\ Step(IF ctl.x.type = "ReturnFlowException" THEN Ret(ctl.x.value) ELSE ctl,
               Pop(kont), exitFunction(runContext), out, NoteExit(hist))

ExpressionStatement_interpret ==
    \/ /\ Entering("ExpressionStatement")
       /\ Step(Eval(ctl.x.m_expr), Invoke(ctl.x, "expr", <<>>, None), runContext, out, hist)
    \/ /\ Resuming("ExpressionStatement", "expr")
       /\ Step(Ret(Zero), Pop(kont), runContext,
               IF shouldDisplayResult(Top(kont).node.m_expr) THEN Append(out, ctl.x) ELSE out, hist)

IfStatement_interpret ==
    \/ /\ Entering("IfStatement")
       /\ Step(Eval(ctl.x.m_condition), Invoke(ctl.x, "condition", <<>>, None), runContext, out, hist)
    \/ /\ Resuming("IfStatement", "condition")
       /\ LET node == Top(kont).node
          IN  IF ctl.x # Zero
              THEN Step(Eval(node.m_trueStmt), Goto("branch", <<>>), runContext, out, hist)
              ELSE IF IsSome(node.m_falseStmt)
              THEN Step(Eval(Val(node.m_falseStmt)), Goto("branch", <<>>), runContext, out, hist)
              ELSE Step(Ret(Zero), Pop(kont), runContext, out, hist)
    \/ /\ Resuming("IfStatement", "branch")
       /\ Step(Ret(Zero), Pop(kont), runContext, out, hist)

\* while(condition != 0): enter the body or leave the loop
WhileTest(condition) ==
    IF condition # Zero
    THEN Step(Eval(Top(kont).node.m_statement), Goto("body", <<>>), runContext, out, hist)
    ELSE Step(Ret(Zero), Pop(kont), runContext, out, hist)

WhileStatement_interpret ==
    \/ /\ Entering("WhileStatement")
       /\ Step(Eval(ctl.x.m_condition), Invoke(ctl.x, "condition", <<>>, None), runContext, out, hist)
    \/ /\ Resuming("WhileStatement", "condition")
       /\ WhileTest(ctl.x)
    \/ /\ Resuming("WhileStatement", "body")
       /\ Step(Eval(Top(kont).node.m_condition), Goto("condition", <<>>), runContext, out, hist)
    \/ /\ Catching("WhileStatement", "body")
       /\ ctl.x.type = "ContinueFlowException"
       /\ Step(Eval(Top(kont).node.m_condition), Goto("condition", <<>>), runContext, out, hist)
    \/ /\ Catching("WhileStatement", "body")
       /\ ctl.x.type = "BreakFlowException"
       /\ Step(Ret(Zero), Pop(kont), runContext, out, hist)

BreakStatement_interpret ==
    /\ Entering("BreakStatement")
    /\ Step(Throw(BreakFlowException), kont, runContext, out, hist)

ContinueStatement_interpret ==
    /\ Entering("ContinueStatement")
    /\ Step(Throw(ContinueFlowException), kont, runContext, out, hist)

\* a variant in which halt leaves the innermost loop only
HaltStatement_interpret_asBreak ==
    /\ Entering("HaltStatement")
    /\ Step(Throw(BreakFlowException), kont, runContext, out, hist)

HaltStatement_interpret ==
    /\ Entering("HaltStatement")
    /\ Step(Throw(HaltFlowException), kont, runContext, out, hist)

ReturnStatement_interpret ==
    \/ /\ Entering("ReturnStatement")
       /\ IF IsSome(ctl.x.m_expr)
          THEN Step(Eval(Val(ctl.x.m_expr)), Invoke(ctl.x, "expr", <<>>, None), runContext, out, hist)
          ELSE Step(Throw(ReturnFlowException(Zero)), kont, runContext, out, hist)
    \/ /\ Resuming("ReturnStatement", "expr")
       /\ Step(Throw(ReturnFlowException(ctl.x)), Pop(kont), runContext, out, hist)

\* loc holds the position of the iterator
StatementList_interpret ==
    \/ /\ Entering("StatementList")
       /\ IF ctl.x.m_statements = <<>>
          THEN Step(Ret(Zero), kont, runContext, out, hist)
          ELSE Step(Eval(ctl.x.m_statements[1]), Invoke(ctl.x, "it", <<1>>, None), runContext, out, hist)
    \/ /\ Resuming("StatementList", "it")
       /\ LET it == Top(kont).loc[1] + 1
              node == Top(kont).node
          IN  IF it <= Len(node.m_statements)
              THEN Step(Eval(node.m_statements[it]), Goto("it", <<it>>), runContext, out, hist)
              ELSE Step(Ret(Zero), Pop(kont), runContext, out, hist)

\* a variant without the catch(...) of FunctionCallExpression::interpret
Handles_onlyReturn(frame, exception) ==
    \/ /\ frame.node.k = "FunctionCallExpression" /\ frame.ph = "body"
       /\ exception.type = "ReturnFlowException"
    \/ /\ frame.node.k = "WhileStatement" /\ frame.ph = "body"
       /\ exception.type \in {"BreakFlowException", "ContinueFlowException"}
    \/ frame.node.k = "command"

\* a variant in which a loop has a handler for Break only
Handles_breakOnly(frame, exception) ==
    \/ frame.node.k = "FunctionCallExpression" /\ frame.ph = "body"
    \/ /\ frame.node.k = "WhileStatement" /\ frame.ph = "body"
       /\ exception.type = "BreakFlowException"
    \/ frame.node.k = "command"

\* the frame has a handler for the exception
Handles(frame, exception) ==
    \/ frame.node.k = "FunctionCallExpression" /\ frame.ph = "body"
    \/ /\ frame.node.k = "WhileStatement" /\ frame.ph = "body"
       /\ exception.type \in {"BreakFlowException", "ContinueFlowException"}
    \/ frame.node.k = "command"

\* an exception leaves an activation that has no handler for it
Unwind ==
    /\ pc = "eval" /\ ctl.m = "throw"
    /\ ~Handles(Top(kont), ctl.x)
    /\ Step(ctl, Pop(kont), runContext, out, hist)

----------------------------------------------------------------------------
\* The parser at work: one step per token of the lexer or reduction

Parse(result) ==
    /\ vstack' = result.vs
    /\ memStack' = result.ms
    /\ semContext' = result.sc
    /\ err' = err \o result.msg
    /\ input' = Tail(input)
    /\ UNCHANGED <<pc, ncmds, runContext, ctl, kont, out, exitStatus, hist>>

Next_is(rules) == pc = "parse" /\ input # <<>> /\ Head(input).r \in rules

yylex_NAME ==
    /\ Next_is({"NAME"})
    /\ Parse(copystring(Head(input).a, vstack, memStack, semContext))

\* printerr of the lexer, on the code of the character: a control character
\* is shown as ^ and the character 64 above it, one above ~ in octal, any
\* other as it is
printerr(c) ==
    IF c < 32 THEN Diagnostic("illegal character", "", "caret", c + 64)
    ELSE IF c > 126 THEN Diagnostic("illegal character", "", "octal", c)
    ELSE Diagnostic("illegal character", "", "plain", c)

\* the catch-all rule of the lexer: the character is reported and no token
\* is returned, the parser gets the token after it
yylex_illegal ==
    /\ Next_is({"ILLEGAL"})
    /\ err' = Append(err, printerr(Head(input).a))
    /\ input' = Tail(input)
    /\ UNCHANGED <<pc, ncmds, vstack, memStack, semContext, runContext, ctl, kont, out,
                   exitStatus, hist>>

reduce_expression ==
    /\ Next_is(ExpressionRules)
    /\ Parse(expression(Head(input), vstack, memStack, semContext))

reduce_expressionlist ==
    /\ Next_is(ExpressionListRules)
    /\ Parse(expressionlist(Head(input), vstack, memStack, semContext))

reduce_statement ==
    /\ Next_is(StatementRules)
    /\ Parse(statement(Head(input), vstack, memStack, semContext))

reduce_statementline ==
    /\ Next_is(StatementListRules)
    /\ Parse(statementline(Head(input), vstack, memStack, semContext))

reduce_variablelist ==
    /\ Next_is(VariableListRules)
    /\ Parse(variablelist(Head(input), vstack, memStack, semContext))

reduce_funcdef ==
    /\ Next_is(FuncdefRules)
    /\ Parse(funcdef(Head(input), vstack, memStack, semContext))

\* command : funcdef NEWLINE
command_funcdef ==
    /\ Next_is({"command_funcdef"})
    /\ runContext' = IF ~detectedError(semContext)
                     THEN addFunctionDefinition(runContext, Top(vstack))
                     ELSE runContext
    /\ hist' = IF ~detectedError(semContext)
                THEN NoteDefinition(hist, runContext, Top(vstack))
                ELSE hist
    /\ memStack' = MemoryStack_pop(memStack)
    /\ vstack' = Pop(vstack)
    /\ input' = Tail(input)
    /\ pc' = "reset"
    /\ UNCHANGED <<ncmds, semContext, ctl, kont, out, err, exitStatus>>

\* command : statementline NEWLINE, up to the call of interpret
command_statementline ==
    /\ Next_is({"command_statementline"})
    /\ input' = Tail(input)
    /\ IF ~detectedError(semContext)
       THEN /\ pc' = "eval"
            /\ ctl' = Eval(Top(vstack))
            /\ kont' = <<CommandFrame>>
            /\ UNCHANGED <<vstack, memStack>>
       ELSE /\ pc' = "reset"
            /\ vstack' = Pop(vstack)
            /\ memStack' = MemoryStack_pop(memStack)
            /\ UNCHANGED <<ctl, kont>>
    /\ UNCHANGED <<ncmds, semContext, runContext, out, err, exitStatus, hist>>

\* command : statementline NEWLINE, from the return of interpret: the two
\* handlers, and an exception of another type, which no handler catches
command_statementline_end ==
    /\ pc = "eval" /\ Len(kont) = 1 /\ ctl.m \in {"ret", "throw"}
    /\ LET thrown == IF ctl.m = "throw" THEN ctl.x.type ELSE ""
       IN  /\ pc' = CASE thrown \in {"", "RuntimeException"} -> "reset"
                      [] thrown = "HaltFlowException" -> "exited"
                      [] OTHER -> "terminated"
           /\ err' = IF thrown = "RuntimeException" THEN Append(err, Val(ctl.x.message)) ELSE err
           /\ exitStatus' = IF thrown = "HaltFlowException" THEN 0 ELSE exitStatus
           /\ IF thrown \in {"", "RuntimeException", "HaltFlowException"}
              THEN vstack' = Pop(vstack) /\ memStack' = MemoryStack_pop(memStack)
              ELSE UNCHANGED <<vstack, memStack>>
    /\ ctl' = Idle
    /\ kont' = <<>>
    /\ UNCHANGED <<ncmds, input, semContext, runContext, out, hist>>

\* yyerror
SyntaxError == Diagnostic("syntax error", "", "", "")

\* command : error NEWLINE, with the recovery that leads to it: the states
\* and values of the unfinished command are popped, the line is skipped
command_error ==
    /\ Next_is({"error_NEWLINE"})
    /\ err' = Append(err, SyntaxError)
    /\ vstack' = <<>>
    /\ memStack' = MemoryStack_freeAll(memStack)
    /\ input' = <<>>
    /\ pc' = "reset"
    /\ UNCHANGED <<ncmds, semContext, runContext, ctl, kont, out, exitStatus, hist>>

\* funcdef after RPAREN and setFunctionArguments: optnewline LBRACE is
\* shifted; at any other token yyerror is called and the recovery goes on to
\* command : error NEWLINE, which skips the rest of the line
funcdef_LBRACE ==
    /\ Next_is({"optnewline_LBRACE"})
    /\ IF optnewline_LBRACE(Head(input).a)
       THEN /\ input' = Tail(input)
            /\ UNCHANGED <<pc, vstack, memStack, err>>
       ELSE /\ err' = Append(err, SyntaxError)
            /\ vstack' = <<>>
            /\ memStack' = MemoryStack_freeAll(memStack)
            /\ input' = <<>>
            /\ pc' = "reset"
    /\ UNCHANGED <<ncmds, semContext, runContext, ctl, kont, out, exitStatus, hist>>

\* a variant that leaves the semantic context as the command left it
prog_keepsContext ==
    /\ pc = "reset"
    /\ pc' = "read"
    /\ UNCHANGED <<ncmds, input, vstack, memStack, semContext, runContext, ctl, kont, out, err,
                   exitStatus, hist>>

\* prog : prog command
prog ==
    /\ pc = "reset"
    /\ semContext' = SemanticContext_reset
    /\ pc' = "read"
    /\ UNCHANGED <<ncmds, input, vstack, memStack, runContext, ctl, kont, out, err, exitStatus, hist>>

----------------------------------------------------------------------------
\* The input.  A command is written as the events the parser goes through
\* for it; the operators below follow the concrete syntax.

Ev(r, a) == [r |-> r, a |-> a]

NUMBER(c) == <<Ev("expr_NUMBER", Num(c))>>
NAME(x) == <<Ev("NAME", x), Ev("expr_NAME", "")>>
PreIncr(x) == <<Ev("NAME", x), Ev("expr_INCR_NAME", "")>>
PreDecr(x) == <<Ev("NAME", x), Ev("expr_DECR_NAME", "")>>
PostIncr(x) == <<Ev("NAME", x), Ev("expr_NAME_INCR", "")>>
PostDecr(x) == <<Ev("NAME", x), Ev("expr_NAME_DECR", "")>>
Arith(l, op, r) == l \o r \o <<Ev("expr_arith", op)>>
Cmp(l, op, r) == l \o r \o <<Ev("expr_bool", op)>>
Not(e) == e \o <<Ev("expr_NOT", "")>>
Paren(e) == e \o <<Ev("expr_paren", "")>>
Neg(e) == e \o <<Ev("expr_UMINUS", "")>>
Assign(x, e) == <<Ev("NAME", x)>> \o e \o <<Ev("expr_ASSIGN", "")>>
OpAssign(x, op, e) == <<Ev("NAME", x)>> \o e \o <<Ev("expr_opASSIGN", op)>>
Call0(f) == <<Ev("NAME", f), Ev("exprlist_empty", ""), Ev("expr_call", "")>>
Call1(f, a) == <<Ev("NAME", f)>> \o a \o <<Ev("exprlist_expression", ""), Ev("expr_call", "")>>
Call2(f, a, b) ==
    <<Ev("NAME", f)>> \o a \o <<Ev("exprlist_expression", "")>> \o b
        \o <<Ev("exprlist_COMMA_expression", ""), Ev("expr_call", "")>>

Expr(e) == e \o <<Ev("stmt_expression", "")>>
If(c, s) == c \o s \o <<Ev("stmt_IF", "")>>
IfElse(c, s, t) == c \o s \o t \o <<Ev("stmt_IF_ELSE", "")>>
While(c, s) == <<Ev("WHILE", "")>> \o c \o s \o <<Ev("stmt_WHILE", "")>>
Halt == <<Ev("stmt_HALT", "")>>
Break == <<Ev("stmt_BREAK", "")>>
Continue == <<Ev("stmt_CONTINUE", "")>>
Return == <<Ev("stmt_RETURN", "")>>
ReturnValue(e) == e \o <<Ev("stmt_RETURN_expression", "")>>
Block(l) == l \o <<Ev("stmt_block", "")>>

NoStatement == <<Ev("list_empty", "")>>
One(s) == s \o <<Ev("list_statement", "")>>
And(l, s) == l \o s \o <<Ev("list_append", "")>>
Semicolon(l) == l \o <<Ev("list_separator", "")>>

NoNames == <<Ev("optlist_empty", "")>>
Name1(a) == <<Ev("NAME", a), Ev("varlist_NAME", "")>>
Name2(a, b) == Name1(a) \o <<Ev("NAME", b), Ev("varlist_COMMA_NAME", "")>>
Auto(l) == l \o <<Ev("optautolist_AUTO", "")>>

Line(l) == l \o <<Ev("command_statementline", "")>>
DefineHead(f, params) ==
    <<Ev("DEFINE", ""), Ev("NAME", f)>> \o params \o <<Ev("setFunctionArguments", "")>>
\* the tokens between the parameter list and the auto list, as the lexer gives them
After_RPAREN(tokens) == <<Ev("optnewline_LBRACE", tokens)>>
Define(f, params, autos, body) ==
    DefineHead(f, params) \o After_RPAREN(<<"LBRACE">>) \o autos \o body
        \o <<Ev("exitFunction", ""), Ev("funcdef", ""), Ev("command_funcdef", "")>>
\* a line that goes wrong after the events of `prefix'
Malformed(prefix) == prefix \o <<Ev("error_NEWLINE", "")>>

X == NAME("x")
Y == NAME("y")

\* x = 1;
AssignX == Line(Semicolon(One(Expr(Assign("x", NUMBER(1))))))
\* x
PrintX == Line(One(Expr(X)))
\* (empty line)
EmptyLine == Line(NoStatement)
\* define f(x) { auto y; y = x; if (x > 0) return f(x - 1) + y; return y }
DefineRecursiveF ==
    Define("f", Name1("x"), Auto(Name1("y")),
           And(And(One(Expr(Assign("y", X))),
                   If(Cmp(X, "OP_GT", NUMBER(0)),
                      ReturnValue(Arith(Call1("f", Arith(X, "OP_MINUS", NUMBER(1))), "OP_PLUS", Y)))),
               ReturnValue(Y)))
\* define f(x) { return g() + x }
DefineFCallsG ==
    Define("f", Name1("x"), NoNames, One(ReturnValue(Arith(Call0("g"), "OP_PLUS", X))))
\* define g() { x += 1; return 2 / x }
DefineGUsesX ==
    Define("g", NoNames, NoNames,
           And(One(Expr(OpAssign("x", "OP_PLUS", NUMBER(1)))),
               ReturnValue(Arith(NUMBER(2), "OP_DIV", X))))
\* define g() { while (1) { if (!(x == 2)) break else halt }; if (y) return }
DefineGHalts ==
    Define("g", NoNames, NoNames,
           And(One(While(NUMBER(1),
                         Block(One(IfElse(Not(Paren(Cmp(X, "OP_EQ", NUMBER(2)))), Break, Halt))))),
               If(Y, Return)))
\* define h(x, y) { while (1) return x - y }
DefineH ==
    Define("h", Name2("x", "y"), NoNames,
           One(While(NUMBER(1), ReturnValue(Arith(X, "OP_MINUS", Y)))))
\* h(x = 5, x + 1)
CallH == Line(One(Expr(Call2("h", Assign("x", NUMBER(5)), Arith(X, "OP_PLUS", NUMBER(1))))))
\* (y = 2); y
ParenAssign == Line(And(Semicolon(One(Expr(Paren(Assign("y", NUMBER(2)))))), Expr(Y)))
\* x = 0; x += x++
CompoundSelf ==
    Line(And(One(Expr(Assign("x", NUMBER(0)))), Expr(OpAssign("x", "OP_PLUS", PostIncr("x")))))
\* (x = 0) && (x = 1); (x = 2) || (x = 1)
AndOr ==
    Line(And(One(Expr(Cmp(Paren(Assign("x", NUMBER(0))), "OP_AND", Paren(Assign("x", NUMBER(1)))))),
             Expr(Cmp(Paren(Assign("x", NUMBER(2))), "OP_OR", Paren(Assign("x", NUMBER(1)))))))
\* a character no rule of the lexer but the catch-all matches, by its code
Illegal(c) == <<Ev("ILLEGAL", c)>>
\* 1 @ + 2
IllegalCharacter == Line(One(Expr(Arith(NUMBER(1) \o Illegal(64), "OP_PLUS", NUMBER(2)))))
\* f(2)
CallF2 == Line(One(Expr(Call1("f", NUMBER(2)))))
\* y = 3; f(-1); y = 5
CallFThenAssign ==
    Line(And(And(One(Expr(Assign("y", NUMBER(3)))), Expr(Call1("f", Neg(NUMBER(1))))),
             Expr(Assign("y", NUMBER(5)))))
\* g()
CallG0 == Line(One(Expr(Call0("g"))))
\* g(++x)
CallG1 == Line(One(Expr(Call1("g", PreIncr("x")))))
\* while (x < 2) { ++x; while (1) break; if (x == 1) continue else y = -x; y++ }
Loop ==
    Line(One(While(Cmp(X, "OP_LT", NUMBER(2)),
                   Block(And(And(And(One(Expr(PreIncr("x"))), While(NUMBER(1), Break)),
                                 IfElse(Cmp(X, "OP_EQ", NUMBER(1)), Continue,
                                        Expr(Assign("y", Neg(X))))),
                             Expr(PostIncr("y")))))))
\* y = 4; 1 / (y - 4); y = 9
DivideByZero ==
    Line(And(And(One(Expr(Assign("y", NUMBER(4)))),
                 Expr(Arith(NUMBER(1), "OP_DIV", Paren(Arith(Y, "OP_MINUS", NUMBER(4)))))),
             Expr(Assign("y", NUMBER(9)))))
\* x = 7; break
BreakOutside == Line(And(One(Expr(Assign("x", NUMBER(7)))), Break))
\* continue; return
ContinueReturnOutside == Line(And(One(Continue), Return))
\* define f(x, x) { return 1 }
DefineDuplicate == Define("f", Name2("x", "x"), NoNames, One(ReturnValue(NUMBER(1))))
\* define g(x) { auto x; return x }
DefineDuplicateAuto == Define("g", Name1("x"), Auto(Name1("x")), One(ReturnValue(X)))
\* f(5 % 0)
ModuloZero == Line(One(Expr(Call1("f", Arith(NUMBER(5), "OP_MOD", NUMBER(0))))))
\* while (x) +        (no statement can start with +)
MalformedWhile == Malformed(<<Ev("WHILE", "")>> \o X)
\* define g(x) auto x { x=1; return x; }
\* (the line ends for the parser at auto: the recovery skips the tokens after it)
DefineAutoFirst == DefineHead("g", Name1("x")) \o After_RPAREN(<<"AUTO">>)
\* 1
PrintOne == Line(One(Expr(NUMBER(1))))

Library ==
    <<AssignX, PrintX, EmptyLine, DefineRecursiveF, DefineFCallsG, DefineGUsesX, DefineGHalts,
      CallF2, CallFThenAssign, CallG0, CallG1, Loop, DivideByZero, BreakOutside, ContinueReturnOutside,
      DefineDuplicate, MalformedWhile, DefineH, CallH, ParenAssign,
      CompoundSelf, AndOr, IllegalCharacter, DefineAutoFirst, PrintOne,
      DefineDuplicateAuto, ModuloZero>>

----------------------------------------------------------------------------
\* The driver

\* yyparse asks for the next command
ReadCommand ==
    /\ pc = "read"
    /\ ncmds < MaxCmds
    /\ \E i \in 1..Len(Library) : input' = Library[i]
    /\ ncmds' = ncmds + 1
    /\ pc' = "parse"
    /\ out' = <<>>
    /\ err' = <<>>
    /\ UNCHANGED <<vstack, memStack, semContext, runContext, ctl, kont, exitStatus, hist>>

\* the input ends: yyparse returns and main calls exit(0)
main_exit ==
    /\ pc = "read"
    /\ pc' = "exited"
    /\ exitStatus' = 0
    /\ UNCHANGED <<ncmds, input, vstack, memStack, semContext, runContext, ctl, kont, out, err, hist>>

Init ==
    /\ pc = "read"
    /\ ncmds = 0
    /\ input = <<>>
    /\ vstack = <<>>
    /\ memStack = EmptyMemoryStack
    /\ semContext = SemanticContext_reset
    /\ runContext = EmptyRuntimeContext
    /\ ctl = Idle
    /\ kont = <<>>
    /\ out = <<>>
    /\ err = <<>>
    /\ exitStatus = -1
    /\ hist = [globals |-> {}, entry |-> <<>>, replaced |-> {}]

Next ==
    \/ ReadCommand
    \/ main_exit
    \/ yylex_NAME
    \/ yylex_illegal
    \/ reduce_expression
    \/ reduce_expressionlist
    \/ reduce_statement
    \/ reduce_statementline
    \/ reduce_variablelist
    \/ reduce_funcdef
    \/ funcdef_LBRACE
    \/ command_funcdef
    \/ command_statementline
    \/ command_statementline_end
    \/ command_error
    \/ prog
    \/ ConstantExpression_interpret
    \/ VariableExpression_interpret
    \/ PrefixOpExpression_interpret
    \/ PostfixOpExpression_interpret
    \/ getVariable_crash
    \/ ArithmeticExpression_interpret
    \/ BooleanExpression_interpret
    \/ NegationExpression_interpret
    \/ MinusExpression_interpret
    \/ AssignExpression_interpret
    \/ FunctionCallExpression_interpret
    \/ ExpressionStatement_interpret
    \/ IfStatement_interpret
    \/ WhileStatement_interpret
    \/ BreakStatement_interpret
    \/ ContinueStatement_interpret
    \/ HaltStatement_interpret
    \/ ReturnStatement_interpret
    \/ StatementList_interpret
    \/ Unwind

Spec == Init /\ [][Next]_vars

\* The arithmetic commands: l / r, l % r and l ^ r, each operand a number,
\* in halves up to MaxOperand or 2.9, or the negative of one
OperandValues == {Norm(k, 2) : k \in 0..2 * MaxOperand} \cup {Norm(29, 10)}
Operands ==
    {ConstantExpression(v) : v \in OperandValues}
        \cup {MinusExpression(ConstantExpression(v)) : v \in OperandValues}

\* main, after an arithmetic command has been read as the first command and
\* the rule command has called its interpret
InitArith ==
    \E l \in Operands, r \in Operands, type \in {"OP_DIV", "OP_MOD", "OP_POW"} :
        LET command == StatementList(<<ExpressionStatement(ArithmeticExpression(l, r, type))>>)
        IN  /\ pc = "eval"
            /\ ncmds = 1
            /\ input = <<>>
            /\ vstack = <<command>>
            /\ memStack = MemoryStack_push(EmptyMemoryStack, "AbsynPointer", command)
            /\ semContext = SemanticContext_reset
            /\ runContext = EmptyRuntimeContext
            /\ ctl = Eval(command)
            /\ kont = <<CommandFrame>>
            /\ out = <<>>
            /\ err = <<>>
            /\ exitStatus = -1
            /\ hist = [globals |-> {}, entry |-> <<>>, replaced |-> {}]

NextArith ==
    \/ StatementList_interpret
    \/ ExpressionStatement_interpret
    \/ ArithmeticExpression_interpret
    \/ ConstantExpression_interpret
    \/ MinusExpression_interpret
    \/ Unwind
    \/ command_statementline_end
    \/ prog
    \/ main_exit

SpecArith == InitArith /\ [][NextArith]_vars

\* The parser's choice between shifting and reducing.  A token is its type
\* and its text; the value stack of the parser holds tokens and expressions.

Token(t, text) == [t |-> t, text |-> text]
Nonterminal == Token("expression", "")

ComparisonTokens == {"LT", "LE", "GT", "GE", "EQ", "NE"}
ArithmeticTokens == {"PLUS", "MINUS", "MUL", "DIV", "MOD", "POW"}
BinaryTokens == {"OR", "AND"} \cup ComparisonTokens \cup ArithmeticTokens
AssignTokens == {"ASSIGN"}

\* a variant of the declarations that has unary minus below POW and NOT
\* above the comparisons
Precedence_unaryBelowPow(t) ==
    CASE t = "OR" -> 1
      [] t = "AND" -> 2
      [] t \in ComparisonTokens -> 3
      [] t = "NOT" -> 4
      [] t \in AssignTokens -> 5
      [] t \in {"PLUS", "MINUS"} -> 6
      [] t \in {"MUL", "DIV", "MOD"} -> 7
      [] t = "UMINUS" -> 8
      [] t = "POW" -> 9

\* the precedence declarations, the first the lowest
Precedence(t) ==
    CASE t = "OR" -> 1
      [] t = "AND" -> 2
      [] t = "NOT" -> 3
      [] t \in ComparisonTokens -> 4
      [] t \in AssignTokens -> 5
      [] t \in {"PLUS", "MINUS"} -> 6
      [] t \in {"MUL", "DIV", "MOD"} -> 7
      [] t = "POW" -> 8
      [] t = "UMINUS" -> 9

\* %right of the assignment operators, %left of every other level
RightAssociative(t) == t \in AssignTokens

\* copynumber of the lexer: atof of the text of the token
atof(text) ==
    CASE text = "1" -> Num(1)
      [] text = "2" -> Num(2)
      [] text = "3" -> Num(3)

\* the class and the type that the rule of a binary operator gives to its node
OperatorRule(t) ==
    CASE t = "PLUS" -> Ev("expr_arith", "OP_PLUS")
      [] t = "MINUS" -> Ev("expr_arith", "OP_MINUS")
      [] t = "MUL" -> Ev("expr_arith", "OP_MUL")
      [] t = "DIV" -> Ev("expr_arith", "OP_DIV")
      [] t = "MOD" -> Ev("expr_arith", "OP_MOD")
      [] t = "POW" -> Ev("expr_arith", "OP_POW")
      [] t = "LT" -> Ev("expr_bool", "OP_LT")
      [] t = "LE" -> Ev("expr_bool", "OP_LE")
      [] t = "GT" -> Ev("expr_bool", "OP_GT")
      [] t = "GE" -> Ev("expr_bool", "OP_GE")
      [] t = "EQ" -> Ev("expr_bool", "OP_EQ")
      [] t = "NE" -> Ev("expr_bool", "OP_NE")
      [] t = "AND" -> Ev("expr_bool", "OP_AND")
      [] t = "OR" -> Ev("expr_bool", "OP_OR")

\* the rule of expression whose right-hand side ends the stack: its number
\* of symbols, its precedence (that of its last token, or of %prec) and
\* the reduction; 0 symbols if there is none
CompleteRule(stack) ==
    LET n == Len(stack)
        before == IF n >= 2 THEN stack[n - 1].t ELSE ""
        first == IF n >= 3 THEN stack[n - 2].t ELSE ""
    IN  CASE before \in BinaryTokens /\ first = "expression" ->
               [len |-> 3, prec |-> Precedence(before), ev |-> OperatorRule(before)]
          [] before = "NOT" -> [len |-> 2, prec |-> Precedence("NOT"), ev |-> Ev("expr_NOT", "")]
          [] before = "MINUS" /\ first # "expression" ->
               [len |-> 2, prec |-> Precedence("UMINUS"), ev |-> Ev("expr_UMINUS", "")]
          [] before \in AssignTokens /\ first = "NAME" ->
               [len |-> 3, prec |-> Precedence(before), ev |-> Ev("expr_ASSIGN", "")]
          [] OTHER -> [len |-> 0, prec |-> 0, ev |-> Ev("", "")]

\* yyparse over the tokens of an expression up to the NEWLINE: the
\* reductions it makes, in their order.  With an expression on top of the
\* stack that completes a rule and an operator as the lookahead, the rule
\* is reduced if its precedence is higher than the token's, or equal and
\* the level is %left, and the token is shifted otherwise.
RECURSIVE yyparse(_, _, _)
yyparse(stack, tokens, reductions) ==
    LET n == Len(stack)
        top == IF n = 0 THEN "" ELSE stack[n].t
        lookahead == IF tokens = <<>> THEN "NEWLINE" ELSE Head(tokens).t
        rule == CompleteRule(stack)
        shift ==
            yyparse(Append(stack, Head(tokens)), Tail(tokens),
                    IF lookahead = "NAME" THEN Append(reductions, Ev("NAME", Head(tokens).text))
                    ELSE reductions)
        reduce(len, ev) ==
            yyparse(Append(PopN(stack, len), Nonterminal), tokens, Append(reductions, ev))
        error == Append(reductions, Ev("error_NEWLINE", ""))
    IN  CASE top = "NUMBER" -> reduce(1, Ev("expr_NUMBER", atof(stack[n].text)))
          [] top = "NAME" ->
               IF lookahead \in AssignTokens THEN shift ELSE reduce(1, Ev("expr_NAME", ""))
          [] top = "expression" ->
               IF lookahead = "NEWLINE"
               THEN IF rule.len = 0 THEN reductions ELSE reduce(rule.len, rule.ev)
               ELSE IF lookahead \notin BinaryTokens THEN error
               ELSE IF rule.len = 0 THEN shift
               ELSE IF \/ rule.prec > Precedence(lookahead)
                       \/ rule.prec = Precedence(lookahead) /\ ~RightAssociative(lookahead)
                    THEN reduce(rule.len, rule.ev)
                    ELSE shift
          [] OTHER ->
               IF lookahead \in {"NUMBER", "NAME", "NOT", "MINUS"} THEN shift ELSE error

\* the expressions read: 1 op 2 op 3 for every two binary operators, and
\* a < b < c, 2 ^ 3 ^ 2, - 2 ^ 2, ! a < b, x = 1 < 2, x = y = 2 + 1
N(text) == Token("NUMBER", text)
V(text) == Token("NAME", text)
Op(t) == Token(t, "")
TwoOperators(op1, op2) == <<N("1"), Op(op1), N("2"), Op(op2), N("3")>>
Expressions ==
    {TwoOperators(op1, op2) : op1 \in BinaryTokens, op2 \in BinaryTokens}
        \cup {<<V("a"), Op("LT"), V("b"), Op("LT"), V("c")>>,
              <<N("2"), Op("POW"), N("3"), Op("POW"), N("2")>>,
              <<Op("MINUS"), N("2"), Op("POW"), N("2")>>,
              <<Op("NOT"), V("a"), Op("LT"), V("b")>>,
              <<V("x"), Op("ASSIGN"), N("1"), Op("LT"), N("2")>>,
              <<V("x"), Op("ASSIGN"), V("y"), Op("ASSIGN"), N("2"), Op("PLUS"), N("1")>>}

\* yyparse, from the first token of a command that is an expression to its
\* NEWLINE
yyparse_expression ==
    /\ Next_is({"expression"})
    /\ input' = yyparse(<<>>, Head(input).a, <<>>) \o Tail(input)
    /\ hist' = [hist EXCEPT !.tokens = Head(input).a]
    /\ UNCHANGED <<pc, ncmds, vstack, memStack, semContext, runContext, ctl, kont, out, err,
                   exitStatus>>

\* main, with a line that is an expression as the first command
InitPrec ==
    \E tokens \in Expressions :
        /\ pc = "parse"
        /\ ncmds = 1
        /\ input = <<Ev("expression", tokens), Ev("stmt_expression", ""), Ev("list_statement", ""),
                     Ev("command_statementline", "")>>
        /\ vstack = <<>>
        /\ memStack = EmptyMemoryStack
        /\ semContext = SemanticContext_reset
        /\ runContext = EmptyRuntimeContext
        /\ ctl = Idle
        /\ kont = <<>>
        /\ out = <<>>
        /\ err = <<>>
        /\ exitStatus = -1
        /\ hist = [globals |-> {}, entry |-> <<>>, replaced |-> {}, tokens |-> <<>>]

NextPrec ==
    \/ yyparse_expression
    \/ yylex_NAME
    \/ reduce_expression
    \/ reduce_statement
    \/ reduce_statementline
    \/ command_statementline
    \/ StatementList_interpret
    \/ ExpressionStatement_interpret
    \/ ConstantExpression_interpret
    \/ VariableExpression_interpret
    \/ ArithmeticExpression_interpret
    \/ BooleanExpression_interpret
    \/ NegationExpression_interpret
    \/ MinusExpression_interpret
    \/ AssignExpression_interpret
    \/ command_statementline_end
    \/ prog
    \/ main_exit

SpecPrec == InitPrec /\ [][NextPrec]_vars

----------------------------------------------------------------------------
\* Properties

\* the activations of FunctionCallExpression::interpret that are in the body
IsActiveCall(frame) == frame.node.k = "FunctionCallExpression" /\ frame.ph = "body"
ActiveCalls == SelectSeq(kont, IsActiveCall)
Declares(function, name) == InSeq(function.m_args, name) \/ InSeq(function.m_autos, name)
Bindings(name) == Entry(runContext.m_variables, name)
Thrown(type) == pc = "eval" /\ ctl.m = "throw" /\ ctl.x.type = type
CallEnds == Resuming("FunctionCallExpression", "body") \/ Catching("FunctionCallExpression", "body")

\* C1: evaluating Var x when variables[x] is empty or absent yields 0, also
\* after a call of a function with a parameter or auto variable x has
\* returned; the top of an empty stack is never read.
C1_EmptyReadsZero ==
    [][(Entering("VariableExpression") /\ Bindings(ctl.x.m_name) = <<>>) => ctl' = Ret(Zero)]_vars

\* C2: the depth of variables[x] is (1 if x has been given a global value,
\* else 0) plus the number of active calls whose parameter list or auto list
\* contains x.
C2_Depth ==
    \A x \in Names :
        Len(Bindings(x)) =
            (IF x \in hist.globals THEN 1 ELSE 0)
                + Cardinality({i \in 1..Len(ActiveCalls) : Declares(Val(ActiveCalls[i].fn), x)})

\* a global x and three activations of f(x), two of them recursive
C2_Witness ==
    /\ "x" \in hist.globals
    /\ Len(Bindings("x")) = 4
    /\ Len(Bindings("y")) = 3

\* C3: call_stack holds exactly the active calls, innermost last, and it is
\* empty whenever no command is being executed: each call is unwound once,
\* whether its body returns, falls through, fails or halts.
C3_CallStack ==
    /\ Len(runContext.m_callStack) = Len(ActiveCalls)
    /\ \A i \in 1..Len(ActiveCalls) : runContext.m_callStack[i] = Val(ActiveCalls[i].fn)
    /\ pc \in {"read", "parse", "reset", "exited"} => runContext.m_callStack = <<>>

\* a runtime error raised in g, called from f, is on its way out of f
C3_Witness ==
    /\ Thrown("RuntimeException")
    /\ Val(ctl.x.message).func = "g"
    /\ Len(runContext.m_callStack) = 1
    /\ runContext.m_callStack[1].m_name = "f"

\* C4: a parameter or auto variable a of f shadows the outer a.  A step that
\* keeps the depth of a name leaves all but its newest binding alone, also
\* in recursive activations, and when a call ends, by any path, every name
\* the function declares has the bindings it had before the call.
C4_Shadowing ==
    [][/\ \A x \in Names :
             (pc = "eval" /\ Len(Entry(runContext'.m_variables, x)) = Len(Bindings(x))
              /\ Bindings(x) # <<>>)
                 => Pop(Entry(runContext'.m_variables, x)) = Pop(Bindings(x))
       /\ CallEnds =>
             \A a \in Names :
                 Declares(Top(runContext.m_callStack), a)
                     => Entry(runContext'.m_variables, a) = Entry(Top(hist.entry), a)]_vars

\* the call f(2) of a top-level command has ended, after the body assigned
\* to its auto variable y, and the global y is still 3
C4_Witness ==
    /\ Resuming("ExpressionStatement", "expr")
    /\ Top(kont).node.m_expr.k = "FunctionCallExpression"
    /\ runContext.m_callStack = <<>>
    /\ "f" \in DOMAIN runContext.m_functionTable
    /\ InSeq(runContext.m_functionTable["f"].m_autos, "y")
    /\ Bindings("y") = <<Num(3)>>
    /\ ctl.x # Zero

\* the value of the global binding of a name
GlobalValue(name) == IF name \in hist.globals THEN Bindings(name)[1] ELSE Zero

\* C5: bindings are lexically scoped: a function that declares no x reads
\* and writes the global x, never the binding of x of a function it is
\* called from.
C5_LexicalScope ==
    [][\A x \in Names :
          (pc = "eval" /\ runContext.m_callStack # <<>>
           /\ ~Declares(Top(runContext.m_callStack), x)
           /\ Len(Bindings(x)) > (IF x \in hist.globals THEN 1 ELSE 0))
              => /\ (Entering("VariableExpression") /\ ctl.x.m_name = x)
                        => ctl' = Ret(GlobalValue(x))
                 /\ Len(Entry(runContext'.m_variables, x)) = Len(Bindings(x))
                        => Top(Entry(runContext'.m_variables, x)) = Top(Bindings(x))]_vars

\* the newest While of the function body, or command, that is being executed
InLoop ==
    \E i \in 1..Len(kont) :
        /\ kont[i].node.k = "WhileStatement" /\ kont[i].ph = "body"
        /\ \A j \in i + 1..Len(kont) : ~IsActiveCall(kont[j])

\* C6: a command in which a semantic error was detected is never executed:
\* the parser's work on a command changes neither the runtime context nor the
\* output, and when it ends with the error flag set the command is dropped
\* as a whole: no statement of it runs, no function is installed or replaced.
C6_NotExecuted ==
    [][(pc = "parse" /\ (pc' = "parse" \/ semContext.m_error))
          => /\ runContext' = runContext
             /\ out' = out
             /\ pc' \in {"parse", "reset"}]_vars

\* the redefinition f(x, x) was rejected and the earlier f is still the one
\* in the function table
C6_Witness ==
    /\ pc = "reset"
    /\ semContext.m_error
    /\ "f" \in DOMAIN runContext.m_functionTable
    /\ runContext.m_functionTable["f"].m_args = <<"x">>
    /\ InSeq(err, printError("duplicate name in parameter or auto variable list"))

\* C7: no Break, Continue or Return reaches the driver: a Break or Continue
\* that is raised has a While of the same function body or command around
\* it, a Return has a function call around it, also in the commands that
\* follow a syntax error.
C7_NoEscape ==
    /\ pc # "terminated"
    /\ (Thrown("BreakFlowException") \/ Thrown("ContinueFlowException")) => InLoop
    /\ Thrown("ReturnFlowException") => ActiveCalls # <<>>

\* a Break is raised inside a loop by a command that follows a syntax error
\* (the tracker still holds the types of what that line had pushed)
C7_Witness ==
    /\ Thrown("BreakFlowException")
    /\ InLoop
    /\ Len(memStack.m_pointerTypes) > 1

\* C8: between commands the allocation tracker holds nothing, in any of its
\* stacks and lists, and the semantic context is in its initial state.
C8_CleanBetweenCommands ==
    pc = "read" => memStack = EmptyMemoryStack /\ semContext = SemanticContext_reset

\* C9: a runtime error aborts the current command and nothing else.  A
\* division by zero raises one; while it propagates nothing is printed or
\* assigned and no statement starts, the calls it leaves are unwound; the
\* driver reports the message and goes on to the next command with the
\* runtime context as it is.
C9_RuntimeError ==
    [][/\ (Resuming("ArithmeticExpression", "rhs") /\ Top(kont).node.m_type = "OP_DIV"
           /\ ctl.x = Zero)
             => ctl'.m = "throw" /\ ctl'.x.type = "RuntimeException"
       /\ Thrown("RuntimeException")
             => /\ out' = out
                /\ runContext'.m_functionTable = runContext.m_functionTable
                /\ IF Len(kont) > 1
                   THEN /\ ctl' = ctl /\ kont' = Pop(kont) /\ pc' = "eval"
                        /\ runContext' = IF IsActiveCall(Top(kont))
                                         THEN exitFunction(runContext) ELSE runContext
                   ELSE /\ pc' = "reset"
                        /\ err' = Append(err, Val(ctl.x.message))
                        /\ runContext' = runContext
                        /\ runContext.m_callStack = <<>>]_vars

\* y = 3; f(-1); y = 5 failed in g, called from f: the message is out, y is 3
\* and both functions are still defined
C9_Witness ==
    /\ pc = "reset"
    /\ err # <<>>
    /\ Top(err).type = "runtime error" /\ Top(err).func = "g"
    /\ Bindings("y") = <<Num(3)>>
    /\ DOMAIN runContext.m_functionTable = {"f", "g"}

\* C10: executing Halt raises a transfer that nothing prints or assigns
\* after, that unwinds every active call and that the driver answers by
\* ending the interpreter with status 0; the interpreter ends in no other
\* way than this or the end of the input, and does nothing once ended.
C10_Halt ==
    [][/\ pc # "exited"
       /\ Entering("HaltStatement") => ctl' = Throw(HaltFlowException)
       /\ Thrown("HaltFlowException")
             => /\ out' = out /\ err' = err
                /\ runContext'.m_functionTable = runContext.m_functionTable
                /\ IF Len(kont) > 1
                   THEN /\ ctl' = ctl /\ kont' = Pop(kont) /\ pc' = "eval"
                        /\ runContext' = IF IsActiveCall(Top(kont))
                                         THEN exitFunction(runContext) ELSE runContext
                   ELSE /\ pc' = "exited" /\ exitStatus' = 0
                        /\ runContext.m_callStack = <<>>
       /\ pc' = "exited"
             => /\ exitStatus' = 0
                /\ pc = "read" \/ (Thrown("HaltFlowException") /\ Len(kont) = 1)]_vars

\* the interpreter has ended on the halt of g, executed in a loop two calls
\* deep by f(2), the third command; defining g did not end it
C10_Witness ==
    /\ pc = "exited"
    /\ ncmds = 3
    /\ DOMAIN runContext.m_functionTable = {"f", "g"}
    /\ runContext.m_callStack = <<>>
    /\ runContext.m_functionTable["g"].m_commands.m_statements[1].k = "WhileStatement"
    /\ DOMAIN runContext.m_variables = {"x"}
    /\ Bindings("x") = <<>>
    /\ vstack = <<>>

\* the message of a runtime error about the function called
IsCallError(exception, text, name) ==
    /\ exception.type = "RuntimeException"
    /\ Val(exception.message).type = "runtime error"
    /\ Val(exception.message).text = text
    /\ Val(exception.message).arg = name

\* C11: a call of a function that is not in the function table raises
\* "function 'f' not defined", a call with another number of arguments than
\* parameters raises "wrong number of arguments for function 'f'"; either
\* error is raised by the first step of the call, before any argument is
\* evaluated: variables, call_stack and the activations are as before.
C11_CallErrors ==
    [][Entering("FunctionCallExpression") =>
          LET f == ctl.x.m_name
              defined == f \in DOMAIN runContext.m_functionTable
              raised(text) ==
                  /\ ctl'.m = "throw" /\ IsCallError(ctl'.x, text, f)
                  /\ runContext' = runContext /\ kont' = kont /\ out' = out
          IN  /\ ~defined => raised("function not defined")
              /\ (defined /\ Len(runContext.m_functionTable[f].m_args) # Len(ctl.x.m_argList))
                    => raised("wrong number of arguments for function")
              /\ (defined /\ Len(runContext.m_functionTable[f].m_args) = Len(ctl.x.m_argList))
                    => ctl'.m = "eval"]_vars

\* g(++x) has failed for its number of arguments and x was not incremented
C11_Witness ==
    /\ pc = "eval" /\ ctl.m = "throw"
    /\ IsCallError(ctl.x, "wrong number of arguments for function", "g")
    /\ Top(kont).node.k = "ExpressionStatement"
    /\ Top(kont).node.m_expr.m_argList[1].k = "PrefixOpExpression"
    /\ "x" \notin DOMAIN runContext.m_variables

\* C12: the arguments of a call are evaluated from the first to the last, in
\* the scope of the caller: nothing is bound before the last value is
\* there, each argument is evaluated in the runtime context its predecessor
\* left, and the callee is entered with the i-th value bound to the i-th
\* parameter.
C12_ArgumentOrder ==
    [][/\ (Entering("FunctionCallExpression") /\ ctl'.m = "eval" /\ ctl.x.m_argList # <<>>)
             => /\ ctl' = Eval(ctl.x.m_argList[1])
                /\ runContext' = runContext
                /\ Top(kont').node = ctl.x /\ Top(kont').ph = "args" /\ Top(kont').loc = <<>>
       /\ Resuming("FunctionCallExpression", "args")
             => LET node == Top(kont).node
                    values == Append(Top(kont).loc, ctl.x)
                    function == runContext.m_functionTable[node.m_name]
                IN  IF Len(values) < Len(node.m_argList)
                    THEN /\ ctl' = Eval(node.m_argList[Len(values) + 1])
                         /\ runContext' = runContext
                         /\ Top(kont').node = node /\ Top(kont').ph = "args"
                         /\ Top(kont').loc = values
                    ELSE /\ IsActiveCall(Top(kont')) /\ Top(kont').loc = values
                         /\ runContext'.m_callStack = Append(runContext.m_callStack, function)
                         /\ \A i \in 1..Len(values) :
                                Entry(runContext'.m_variables, function.m_args[i])
                                    = Append(Bindings(function.m_args[i]), values[i])]_vars

\* h(x = 5, x + 1): the second argument has seen the assignment of the
\* first, made to the caller's x, and h is entered with x = 5 and y = 6 on
\* top of them
C12_Witness ==
    /\ pc = "eval" /\ ctl.m = "eval"
    /\ IsActiveCall(Top(kont))
    /\ Top(kont).node.m_name = "h"
    /\ Top(kont).loc = <<Num(5), Num(6)>>
    /\ Bindings("x") = <<Num(5), Num(5)>>
    /\ Bindings("y") = <<Num(6)>>

\* C13: the value of a call is the value of the Return that ends its body,
\* 0 for a Return without expression and 0 when the body falls through.  A
\* Return leaves the statements, blocks and loops of the body without going
\* on in any of them and ends the innermost active call only: its caller
\* resumes with the value.
C13_ReturnValue ==
    [][/\ (Entering("ReturnStatement") /\ ~IsSome(ctl.x.m_expr))
             => ctl'.m = "throw" /\ ctl'.x.type = "ReturnFlowException" /\ ctl'.x.value = Zero
       /\ Resuming("ReturnStatement", "expr")
             => ctl'.m = "throw" /\ ctl'.x.type = "ReturnFlowException" /\ ctl'.x.value = ctl.x
       /\ Thrown("ReturnFlowException")
             => /\ kont' = Pop(kont) /\ out' = out
                /\ IF IsActiveCall(Top(kont))
                   THEN ctl' = Ret(ctl.x.value) /\ runContext' = exitFunction(runContext)
                   ELSE ctl' = ctl /\ runContext' = runContext
       /\ Resuming("FunctionCallExpression", "body")
             => ctl' = Ret(Zero) /\ kont' = Pop(kont) /\ runContext' = exitFunction(runContext)]_vars

\* f(1), called by f(2), has returned 1 to the sum f(x - 1) + y in the body
\* of its caller, which is still active
C13_Witness ==
    /\ Resuming("ArithmeticExpression", "lhs")
    /\ Top(kont).node.m_lhs.k = "FunctionCallExpression"
    /\ Top(kont).node.m_lhs.m_name = "f"
    /\ ctl.x = Num(1)
    /\ Len(runContext.m_callStack) = 1
    /\ Bindings("x") = <<Num(2)>>

IsLoopBody(frame) == frame.node.k = "WhileStatement" /\ frame.ph = "body"

\* C14: Break and Continue act on the innermost enclosing While.  On their
\* way to it they leave the statements of its body and nothing else runs;
\* Break ends that loop with no further evaluation of its condition,
\* Continue starts one evaluation of its condition, whose value alone
\* decides between the next iteration and the end of the loop.
C14_BreakContinue ==
    [][/\ (Thrown("BreakFlowException") \/ Thrown("ContinueFlowException"))
             => /\ out' = out
                /\ IF ~IsLoopBody(Top(kont))
                   THEN ctl' = ctl /\ kont' = Pop(kont)
                   ELSE /\ runContext' = runContext
                        /\ IF ctl.x.type = "BreakFlowException"
                           THEN ctl' = Ret(Zero) /\ kont' = Pop(kont)
                           ELSE /\ ctl' = Eval(Top(kont).node.m_condition)
                                /\ kont' = SetTop(kont, [Top(kont) EXCEPT !.ph = "condition"])
       /\ Resuming("WhileStatement", "condition")
             => IF ctl.x # Zero
                THEN /\ ctl' = Eval(Top(kont).node.m_statement)
                     /\ kont' = SetTop(kont, [Top(kont) EXCEPT !.ph = "body"])
                ELSE ctl' = Ret(Zero) /\ kont' = Pop(kont)]_vars

\* the inner loop of `while (x < 2) { ++x; while (1) break; ... }' has been
\* ended by its break in the second iteration of the outer loop
C14_Witness ==
    /\ Resuming("StatementList", "it")
    /\ Top(kont).loc = <<2>>
    /\ Top(kont).node.m_statements[2].k = "WhileStatement"
    /\ IsLoopBody(kont[Len(kont) - 1])
    /\ ncmds = 1
    /\ Bindings("x") = <<Num(2)>>

\* C15: a call dispatches to the most recent definition of the name that
\* was accepted.  An accepted definition takes the one entry of its name in
\* the function table, whatever was there, nothing else changes the table,
\* and every call, also one from a body that is older than the redefinition,
\* runs the body the table holds for the name when the call is made.
C15_LastDefinitionWins ==
    [][/\ IF pc = "parse" /\ Head(input).r = "command_funcdef" /\ ~semContext.m_error
          THEN /\ DOMAIN runContext'.m_functionTable
                      = DOMAIN runContext.m_functionTable \cup {Top(vstack).m_name}
               /\ \A f \in DOMAIN runContext'.m_functionTable :
                      runContext'.m_functionTable[f]
                          = IF f = Top(vstack).m_name THEN Top(vstack)
                            ELSE runContext.m_functionTable[f]
          ELSE runContext'.m_functionTable = runContext.m_functionTable
       /\ (pc = "eval" /\ Len(kont') > Len(kont) /\ IsActiveCall(Top(kont')))
             => /\ Top(kont').fn = Some(runContext.m_functionTable[Top(kont').node.m_name])
                /\ ctl' = Eval(runContext.m_functionTable[Top(kont').node.m_name].m_commands)
       /\ (pc = "eval" /\ Len(kont') = Len(kont) /\ IsActiveCall(Top(kont'))
           /\ ~IsActiveCall(Top(kont)))
             => /\ Top(kont').fn = Some(runContext.m_functionTable[Top(kont').node.m_name])
                /\ ctl' = Eval(runContext.m_functionTable[Top(kont').node.m_name].m_commands)]_vars

\* g has been defined a second time; f, whose body calls g, is active and
\* its call of g runs the loop of the definition the table holds
C15_Witness ==
    /\ pc = "eval"
    /\ hist.replaced = {"g"}
    /\ Len(runContext.m_callStack) = 2
    /\ runContext.m_callStack[1].m_name = "f"
    /\ runContext.m_callStack[2].m_name = "g"
    /\ runContext.m_callStack[2].m_commands.m_statements[1].k = "WhileStatement"
    /\ IsLoopBody(Top(kont))

\* C16: an expression statement that is evaluated prints the value of its
\* expression, once, unless the expression is an assignment, and nothing
\* else in the evaluator prints; assignments are what the rules for =, for
\* the compound operators and for either of them in parentheses build.
C16_Display ==
    [][/\ pc = "eval"
             => IF Resuming("ExpressionStatement", "expr")
                THEN /\ ctl' = Ret(Zero)
                     /\ out' = IF Top(kont).node.m_expr.k = "AssignExpression"
                               THEN out ELSE Append(out, ctl.x)
                ELSE out' = out
       /\ (pc = "parse" /\ pc' = "parse")
             => LET rule == Head(input).r
                IN  /\ rule \in {"expr_ASSIGN", "expr_opASSIGN"}
                          => Top(vstack').k = "AssignExpression"
                    /\ rule = "expr_paren" => vstack' = vstack
                    /\ rule = "stmt_expression"
                          => Top(vstack') = ExpressionStatement(Top(vstack))
                    /\ rule \in ExpressionRules \ {"expr_ASSIGN", "expr_opASSIGN", "expr_paren"}
                          => Top(vstack').k # "AssignExpression"]_vars

\* (y = 2); y has printed one value, the 2 of its second statement
C16_Witness ==
    /\ Resuming("StatementList", "it")
    /\ Top(kont).loc = <<2>>
    /\ Len(Top(kont).node.m_statements) = 2
    /\ Top(kont).node.m_statements[1].m_expr.k = "AssignExpression"
    /\ Top(kont).node.m_statements[2].m_expr.k = "VariableExpression"
    /\ out = <<Num(2)>>

\* what the rules for the compound assignments build: x = x op e
IsCompound(node) ==
    /\ node.k = "AssignExpression"
    /\ node.m_expr.k = "ArithmeticExpression"
    /\ node.m_expr.m_lhs = VariableExpression(node.m_name)
\* the sum, difference, ... of a compound assignment is the activation on top
InCompound ==
    /\ Len(kont) >= 2
    /\ Top(kont).node.k = "ArithmeticExpression"
    /\ IsCompound(kont[Len(kont) - 1].node)
    /\ kont[Len(kont) - 1].node.m_expr = Top(kont).node

\* C17, as the specification states it: x op= e combines the value x has
\* after e has been evaluated with the value of e.
C17_ReadsAfter ==
    [][(Resuming("ArithmeticExpression", "rhs") /\ InCompound
        /\ Bindings(Top(kont).node.m_lhs.m_name) # <<>>)
          => ctl' = ArithmeticResult(runContext, Top(kont).node.m_type,
                                     Top(Bindings(Top(kont).node.m_lhs.m_name)), ctl.x)]_vars

\* C17: x op= e is built as x = x op e and behaves as "read x, evaluate e,
\* combine, store": x is read first, e is evaluated after the read, and the
\* value combined with the value of e is the one read, whatever e did to x.
C17_ReadsBefore ==
    [][/\ (pc = "parse" /\ Head(input).r = "expr_opASSIGN")
             => Top(vstack') =
                    AssignExpression(vstack[Len(vstack) - 1],
                        ArithmeticExpression(VariableExpression(vstack[Len(vstack) - 1]),
                                             Top(vstack), Head(input).a))
       /\ (Entering("ArithmeticExpression") /\ Top(kont).node.k = "AssignExpression"
           /\ IsCompound(Top(kont).node))
             => ctl' = Eval(VariableExpression(Top(kont).node.m_name))
       /\ (Resuming("ArithmeticExpression", "lhs") /\ InCompound)
             => /\ ctl' = Eval(Top(kont).node.m_rhs)
                /\ Top(kont').loc = <<ctl.x>>
                /\ runContext' = runContext
       /\ (Resuming("ArithmeticExpression", "rhs") /\ InCompound)
             => /\ ctl' = ArithmeticResult(runContext, Top(kont).node.m_type,
                                           Top(kont).loc[1], ctl.x)
                /\ kont' = Pop(kont)
       /\ (Resuming("AssignExpression", "expr") /\ IsCompound(Top(kont).node))
             => /\ ctl' = Ret(ctl.x)
                /\ Top(Entry(runContext'.m_variables, Top(kont).node.m_name)) = ctl.x]_vars

\* x = 0; x += x++ : x was read as 0, x++ made it 1, and the assignment has
\* stored 0 + 0
C17_Witness ==
    /\ Resuming("ExpressionStatement", "expr")
    /\ IsCompound(Top(kont).node.m_expr)
    /\ Top(kont).node.m_expr.m_expr.m_rhs = PostfixOpExpression("x", "OP_INCR")
    /\ Top(vstack).m_statements[1] = ExpressionStatement(AssignExpression("x", ConstantExpression(Zero)))
    /\ Len(Bindings("x")) = 1
    /\ Bindings("x") = <<Zero>>
    /\ ctl.x = Zero

\* C18: && and || never short-circuit: the left operand is evaluated first,
\* the right operand is evaluated next whatever the value of the left one,
\* and the result is 1 or 0 according to (lhs # 0) and/or (rhs # 0).
C18_NoShortCircuit ==
    [][/\ (Entering("BooleanExpression") /\ ctl.x.m_type \in {"OP_AND", "OP_OR"})
             => /\ ctl' = Eval(ctl.x.m_lhs)
                /\ runContext' = runContext
       /\ (Resuming("BooleanExpression", "lhs") /\ Top(kont).node.m_type \in {"OP_AND", "OP_OR"})
             => /\ ctl' = Eval(Top(kont).node.m_rhs)
                /\ Top(kont').node = Top(kont).node
                /\ Top(kont').loc = <<ctl.x>>
       /\ (Resuming("BooleanExpression", "rhs") /\ Top(kont).node.m_type = "OP_AND")
             => ctl' = Ret(IF Top(kont).loc[1] # Zero /\ ctl.x # Zero THEN Num(1) ELSE Num(0))
       /\ (Resuming("BooleanExpression", "rhs") /\ Top(kont).node.m_type = "OP_OR")
             => ctl' = Ret(IF Top(kont).loc[1] # Zero \/ ctl.x # Zero THEN Num(1) ELSE Num(0))]_vars

\* (x = 0) && (x = 1); (x = 2) || (x = 1) as the first command: the first
\* statement printed 0, and the second is 1 after its right operand, which
\* the left one made redundant, has assigned x
C18_Witness ==
    /\ Resuming("ExpressionStatement", "expr")
    /\ Top(kont).node.m_expr.k = "BooleanExpression"
    /\ Top(kont).node.m_expr.m_type = "OP_OR"
    /\ Top(kont).node.m_expr.m_lhs = AssignExpression("x", ConstantExpression(Num(2)))
    /\ ctl.x = Num(1)
    /\ ncmds = 1
    /\ out = <<Zero>>
    /\ Bindings("x") = <<Num(1)>>

\* C19, as the specification states it: a command with an illegal character
\* is rejected: once the character has been reported the command is not
\* executed, so it prints no value.
C19_IllegalRejected ==
    (\E i \in DOMAIN err : err[i].type = "illegal character") => out = <<>>

\* the parser has read define g(x) and is at the token after the parenthesis,
\* which is auto
AtAutoFirst ==
    /\ Next_is({"optnewline_LBRACE"})
    /\ Head(input).a = <<"AUTO">>
    /\ vstack = <<"g", <<"x">>>>

\* C20, as the specification states it: define g(x) auto x { ... } is
\* answered with the semantic error for a duplicate name and not with a
\* syntax error.
C20_SemanticError ==
    [][AtAutoFirst => /\ \A i \in DOMAIN err' : err'[i] # SyntaxError
                      /\ pc' = "parse"]_vars

\* C20: define g(x) auto x { ... } is answered with a syntax error, at the
\* token auto, and with no semantic error; the rest of the line is skipped,
\* the function table is left as it was, so g is not installed by this line,
\* and the interpreter goes on to the next command.
C20_SyntaxError ==
    [][AtAutoFirst => /\ err' = <<[type |-> "syntax error", func |-> "", text |-> "", arg |-> ""]>>
                      /\ runContext' = runContext
                      /\ input' = <<>>
                      /\ vstack' = <<>>
                      /\ memStack'.m_charPointers = <<>>
                      /\ memStack'.m_charListPointers = <<>>
                      /\ exitStatus' = exitStatus
                      /\ pc' = "reset"]_vars

\* define g(x) auto x { ... } was the first command and rejected after its
\* parameter list, whose type the tracker still has; the second command, 1,
\* is being executed and has printed 1; there is no function g
C20_Witness ==
    /\ ncmds = 2
    /\ memStack.m_pointerTypes = <<"CharListPointer", "AbsynPointer">>
    /\ pc = "eval"
    /\ vstack = <<StatementList(<<ExpressionStatement(ConstantExpression(Num(1)))>>)>>
    /\ out = <<Num(1)>>
    /\ err = <<>>
    /\ "g" \notin DOMAIN runContext.m_functionTable

\* the parser reports a syntax error in this step
ReportsSyntaxError ==
    /\ pc = "parse"
    /\ Len(err') = Len(err) + 1
    /\ Top(err').type = "syntax error"

\* C21: on a syntax error the rest of the line is skipped, every tracked
\* fragment is released and nothing of the line is executed: the runtime
\* context and the output stay as they are.  The semantic context is cleared
\* before the next command is read, which starts as a top-level command: on
\* an empty value stack, outside any loop and function and with no error.
C21_Recovery ==
    [][/\ ReportsSyntaxError
             => /\ input' = <<>>
                /\ vstack' = <<>>
                /\ memStack'.m_absynPointers = <<>>
                /\ memStack'.m_charListPointers = <<>>
                /\ memStack'.m_absExprListPointers = <<>>
                /\ memStack'.m_charPointers = <<>>
                /\ runContext' = runContext
                /\ out' = out /\ ctl' = ctl /\ kont' = kont
                /\ exitStatus' = exitStatus
                /\ pc' = "reset"
       /\ pc = "reset"
             => /\ pc' = "read"
                /\ semContext' = [m_inFunction |-> FALSE, m_funcArgs |-> <<>>, m_while |-> 0,
                                  m_error |-> FALSE]
                /\ runContext' = runContext
       /\ (pc = "read" /\ pc' = "parse")
             => /\ vstack = <<>>
                /\ ~semContext.m_inFunction /\ semContext.m_while = 0 /\ ~semContext.m_error
                /\ runContext.m_callStack = <<>>
                /\ \E i \in 1..Len(Library) : input' = Library[i]]_vars

\* while (x) + was the first command and a syntax error inside a loop; the
\* second, x = 7; break, has been rejected because its break is in no loop
C21_Witness ==
    /\ ncmds = 2
    /\ pc = "reset"
    /\ memStack.m_pointerTypes = <<"AbsynPointer">>
    /\ err = <<[type |-> "semantic error", func |-> "", text |-> "break outside while", arg |-> ""]>>
    /\ runContext.m_variables = <<>>

\* C22: an assignment overwrites the newest binding of its name when there
\* is one and pushes the value otherwise, and changes no other name.  A call
\* that ends leaves the bindings of the names its function does not declare
\* as they are, so a binding that an assignment in the body gave to an
\* unbound name is there, with its value, after the call.
C22_Assign ==
    [][/\ Resuming("AssignExpression", "expr")
             => LET name == Top(kont).node.m_name
                    old == Bindings(name)
                IN  /\ Entry(runContext'.m_variables, name) =
                           IF old = <<>> THEN <<ctl.x>>
                           ELSE [i \in 1..Len(old) |-> IF i = Len(old) THEN ctl.x ELSE old[i]]
                    /\ \A n \in Names \ {name} : Entry(runContext'.m_variables, n) = Bindings(n)
                    /\ ctl' = Ret(ctl.x)
       /\ CallEnds
             => \A a \in Names :
                    ~Declares(Top(runContext.m_callStack), a)
                        => Entry(runContext'.m_variables, a) = Bindings(a)]_vars

\* define g() { x += 1; return 2 / x } and g() were the first two commands:
\* the call has returned 2 and the x its body assigned is the global x, 1
C22_Witness ==
    /\ ncmds = 2
    /\ Resuming("ExpressionStatement", "expr")
    /\ Top(kont).node.m_expr = FunctionCallExpression("g", <<>>)
    /\ ctl.x = Num(2)
    /\ runContext.m_callStack = <<>>
    /\ Bindings("x") = <<Num(1)>>
    /\ hist.globals = {"x"}

\* the parameters and the auto variables of a definition, in their order
DeclaredNames(definition) == definition.m_args \o definition.m_autos
HasDuplicate(names) == \E i, j \in 1..Len(names) : i < j /\ names[i] = names[j]

\* C23: every definition in the function table has pairwise distinct names
\* across its parameters and auto variables.  A definition in which a name
\* repeats has, when the parser comes to its end, the error flag set and the
\* diagnostic "duplicate name in parameter or auto variable list" printed,
\* so it is not installed.
C23_DistinctNames ==
    /\ \A f \in DOMAIN runContext.m_functionTable :
           ~HasDuplicate(DeclaredNames(runContext.m_functionTable[f]))
    /\ (pc = "parse" /\ input # <<>> /\ Head(input).r = "command_funcdef"
        /\ HasDuplicate(DeclaredNames(Top(vstack))))
          => /\ semContext.m_error
             /\ \E i \in 1..Len(err) :
                    err[i] = [type |-> "semantic error", func |-> "",
                              text |-> "duplicate name in parameter or auto variable list",
                              arg |-> ""]

\* define g(x) { auto x; return x } has been parsed to its end: the auto
\* variable that repeats the parameter has been reported
C23_Witness ==
    /\ pc = "parse" /\ input # <<>> /\ Head(input).r = "command_funcdef"
    /\ Top(vstack).m_args = <<"x">>
    /\ Top(vstack).m_autos = <<"x">>
    /\ semContext.m_error
    /\ Len(err) = 1

\* C24: the function a runtime error message names is the function of the
\* innermost call whose body is being executed when the error is raised, and
\* (main) when there is none: a call that is undefined, has the wrong number
\* of arguments or is still evaluating its arguments is not yet active, so
\* its errors name the caller.
C24_ErrorFunction ==
    [][(pc = "eval" /\ ctl.m # "throw" /\ ctl'.m = "throw" /\ ctl'.x.type = "RuntimeException")
          => ctl'.x.message[1].func =
                 IF ActiveCalls = <<>> THEN "(main)"
                 ELSE ActiveCalls[Len(ActiveCalls)].fn[1].m_name]_vars

\* the body of f, called by a top-level command, calls g, which is not
\* defined: the error names f
C24_Witness ==
    /\ Thrown("RuntimeException")
    /\ ctl.x.message[1].func = "f"
    /\ ctl.x.message[1].text = "function not defined"
    /\ ctl.x.message[1].arg = "g"
    /\ "g" \notin DOMAIN runContext.m_functionTable
    /\ Len(ActiveCalls) = 1
    /\ runContext.m_callStack # <<>>

\* lhs multiplied by itself n times
RECURSIVE Times(_, _)
Times(lhs, n) == IF n = 0 THEN Num(1) ELSE Mul(Times(lhs, n - 1), lhs)

\* the operands of the sum, product, ... that is about to give its result
Lhs == Top(kont).loc[1]
Rhs == ctl.x
AtResult(type) == Resuming("ArithmeticExpression", "rhs") /\ Top(kont).node.m_type = type

\* C25: lhs ^ rhs, for an integer lhs, is lhs multiplied by itself
\* max(0, floor(rhs)) times: 1 for every rhs <= 0, also for lhs = 0, and
\* with a fraction of rhs dropped (2 ^ 2.9 = 4, 2 ^ -3 = 1); it raises no
\* runtime error.
C25_Pow ==
    [][(AtResult("OP_POW") /\ Lhs[2] = 1)
          => LET floor == Rhs[1] \div Rhs[2]
             IN  /\ ctl' = [m |-> "ret", x |-> Times(Lhs, IF floor < 0 THEN 0 ELSE floor)]
                 /\ Rhs[1] <= 0 => ctl'.x = <<1, 1>>
                 /\ (Lhs = <<2, 1>> /\ Rhs = <<29, 10>>) => ctl'.x = <<4, 1>>
                 /\ (Lhs = <<2, 1>> /\ Rhs = <<-3, 1>>) => ctl'.x = <<1, 1>>]_vars

\* 2 ^ 2.9 has given 4 to the statement that prints it
C25_Witness ==
    /\ Resuming("ExpressionStatement", "expr")
    /\ Top(kont).node.m_expr =
           ArithmeticExpression(ConstantExpression(<<2, 1>>), ConstantExpression(<<29, 10>>), "OP_POW")
    /\ ctl.x = <<4, 1>>

\* floor(lhs / rhs) for rhs # 0, as an integer
FloorOfQuotient(lhs, rhs) ==
    LET sign == IF rhs[1] < 0 THEN -1 ELSE 1
    IN  (sign * lhs[1] * rhs[2]) \div (sign * rhs[1] * lhs[2])
\* the step raises the runtime error with this text
Raises(text) ==
    /\ ctl'.m = "throw"
    /\ ctl'.x.type = "RuntimeException"
    /\ ctl'.x.message[1].type = "runtime error"
    /\ ctl'.x.message[1].text = text

\* C26: with both operands evaluated, lhs / 0 raises "division by zero" and
\* lhs % 0 raises "modulo zero", and neither gives a value, so nothing is
\* printed; lhs / rhs with rhs # 0 is the quotient; lhs % rhs with rhs # 0
\* is lhs - floor(lhs / rhs) * rhs, which for integers lies in [0, rhs) when
\* rhs > 0 and in (rhs, 0] when rhs < 0.
C26_DivMod ==
    [][/\ (AtResult("OP_DIV") /\ Rhs[1] = 0) => Raises("division by zero")
       /\ (AtResult("OP_MOD") /\ Rhs[1] = 0) => Raises("modulo zero")
       /\ (AtResult("OP_DIV") /\ Rhs[1] # 0)
             => /\ ctl'.m = "ret"
                /\ ctl'.x[1] * Lhs[2] * Rhs[1] = ctl'.x[2] * Lhs[1] * Rhs[2]
       /\ (AtResult("OP_MOD") /\ Rhs[1] # 0)
             => LET q == FloorOfQuotient(Lhs, Rhs)
                    value == ctl'.x
                IN  /\ ctl'.m = "ret"
                    /\ value[1] * Lhs[2] * Rhs[2]
                           = value[2] * (Lhs[1] * Rhs[2] - q * Rhs[1] * Lhs[2])
                    /\ (Lhs[2] = 1 /\ Rhs[2] = 1 /\ Rhs[1] > 0)
                          => value[2] = 1 /\ 0 <= value[1] /\ value[1] < Rhs[1]
                    /\ (Lhs[2] = 1 /\ Rhs[2] = 1 /\ Rhs[1] < 0)
                          => value[2] = 1 /\ Rhs[1] < value[1] /\ value[1] <= 0
       /\ (pc = "eval" /\ ctl.m = "throw") => out' = <<>>]_vars

\* -3 % 2 has given 1 to the statement that prints it
C26_Witness ==
    /\ Resuming("ExpressionStatement", "expr")
    /\ Top(kont).node.m_expr =
           ArithmeticExpression(MinusExpression(ConstantExpression(<<3, 1>>)),
                                ConstantExpression(<<2, 1>>), "OP_MOD")
    /\ ctl.x = <<1, 1>>

\* the reductions that give a fragment of the tree as their value
GivesFragment ==
    /\ pc = "parse" /\ input # <<>>
    /\ Head(input).r \in (ExpressionRules \cup StatementRules \cup StatementListRules) \ {"WHILE"}

\* C27, as the specification states it: after every reduction the tracker
\* holds the fragments that have no parent yet and none that has one: the
\* fragment a reduction gives as its value, which has no parent yet, is the
\* newest the tracker holds.
C27_TrackerHoldsFragments ==
    [][GivesFragment => /\ memStack'.m_absynPointers # <<>>
                        /\ Top(memStack'.m_absynPointers) = Top(vstack')]_vars

\* C27, for the reductions other than that of unary minus: the fragment the
\* reduction gives as its value is the newest the tracker holds.
C27_OtherReductions ==
    [][(GivesFragment /\ Head(input).r # "expr_UMINUS")
          => /\ memStack'.m_absynPointers # <<>>
             /\ Top(memStack'.m_absynPointers) = Top(vstack')]_vars

\* the levels of the operators as the specification lists them, the lowest first
Level(t) ==
    CASE t = "OR" -> 1
      [] t = "AND" -> 2
      [] t \in {"LT", "LE", "GT", "GE", "EQ", "NE"} -> 4
      [] t \in {"PLUS", "MINUS"} -> 6
      [] t \in {"MUL", "DIV", "MOD"} -> 7
      [] t = "POW" -> 8

\* the node of l op r
Binary(l, t, r) ==
    IF t \in {"PLUS", "MINUS", "MUL", "DIV", "MOD", "POW"}
    THEN ArithmeticExpression(l, r, "OP_" \o t)
    ELSE BooleanExpression(l, r, "OP_" \o t)

Constant(n) == ConstantExpression(<<n, 1>>)
\* the expression of the command, once the command is built
Tree == Top(vstack).m_statements[1].m_expr

\* C28: the tree of an expression agrees with the precedence table, with
\* left grouping inside a level of binary operators: 1 op1 2 op2 3 is
\* (1 op1 2) op2 3 unless op2 is of a higher level than op1, and then
\* 1 op1 (2 op2 3); a < b < c is (a < b) < c, 2 ^ 3 ^ 2 is (2 ^ 3) ^ 2,
\* - 2 ^ 2 is (- 2) ^ 2, ! a < b is !(a < b), x = 1 < 2 is (x = 1) < 2;
\* 1 + 2 * 3 prints 7.
C28_Precedence ==
    /\ \A op1 \in BinaryTokens, op2 \in BinaryTokens :
         (pc = "eval" /\ hist.tokens = TwoOperators(op1, op2))
            => Tree = IF Level(op1) >= Level(op2)
                      THEN Binary(Binary(Constant(1), op1, Constant(2)), op2, Constant(3))
                      ELSE Binary(Constant(1), op1, Binary(Constant(2), op2, Constant(3)))
    /\ (pc = "eval" /\ hist.tokens = <<V("a"), Op("LT"), V("b"), Op("LT"), V("c")>>)
          => Tree = Binary(Binary(VariableExpression("a"), "LT", VariableExpression("b")),
                           "LT", VariableExpression("c"))
    /\ (pc = "eval" /\ hist.tokens = <<N("2"), Op("POW"), N("3"), Op("POW"), N("2")>>)
          => Tree = Binary(Binary(Constant(2), "POW", Constant(3)), "POW", Constant(2))
    /\ (pc = "eval" /\ hist.tokens = <<Op("MINUS"), N("2"), Op("POW"), N("2")>>)
          => Tree = Binary(MinusExpression(Constant(2)), "POW", Constant(2))
    /\ (pc = "eval" /\ hist.tokens = <<Op("NOT"), V("a"), Op("LT"), V("b")>>)
          => Tree = NegationExpression(
                        Binary(VariableExpression("a"), "LT", VariableExpression("b")))
    /\ (pc = "eval" /\ hist.tokens = <<V("x"), Op("ASSIGN"), N("1"), Op("LT"), N("2")>>)
          => Tree = Binary(AssignExpression("x", Constant(1)), "LT", Constant(2))
    /\ (pc = "reset" /\ hist.tokens = TwoOperators("PLUS", "MUL")) => out = <<Num(7)>>

\* 1 + 2 * 3 has printed 7, from the tree of 1 + (2 * 3)
C28_Witness ==
    /\ pc = "reset"
    /\ hist.tokens = TwoOperators("PLUS", "MUL")
    /\ out = <<Num(7)>>

\* the entries of the type stack that carry a tag
Tagged(type) == {i \in DOMAIN memStack.m_pointerTypes : memStack.m_pointerTypes[i] = type}

\* C29: in every state the type stack of the tracker has one entry for each
\* entry of the three pointer stacks, as many of a tag as the stack of that
\* tag holds, so that pop removes the newest entry and never pops an empty
\* pointer stack; also across freeAll and in the commands after a syntax
\* error.
C29_TypeStackAgrees ==
    /\ Len(memStack.m_pointerTypes) =
           Len(memStack.m_absynPointers) + Len(memStack.m_charListPointers)
               + Len(memStack.m_absExprListPointers)
    /\ \A type \in {"AbsynPointer", "CharListPointer", "AbsExprListPointer"} :
           Cardinality(Tagged(type)) = Len(memStack[StackOf(type)])

\* C30: no assertion of the program fails.  enterFunction has got as many
\* values as the function has parameters, exitFunction is called with a
\* call on the call stack, interpret is never called on a function
\* definition, and setFunctionArguments and checkFunctionVariable are
\* called inside a function definition, also after a syntax error.
C30_PreconditionsHold ==
    /\ \A i \in DOMAIN kont :
         IsActiveCall(kont[i]) => Len(kont[i].loc) = Len(Val(kont[i].fn).m_args)
    /\ (Resuming("FunctionCallExpression", "body") \/ Catching("FunctionCallExpression", "body"))
          => runContext.m_callStack # <<>>
    /\ (pc = "eval" /\ ctl.m = "eval") => ctl.x.k # "FunctionDefinition"
    /\ \A i \in DOMAIN kont : i > 1 => kont[i].node.k # "FunctionDefinition"
    /\ Next_is({"setFunctionArguments", "varlist_NAME", "varlist_COMMA_NAME"})
          => semContext.m_inFunction

\* the first parameter of a definition is about to be checked, inside the
\* definition, in a run that has had a syntax error (the tracker still holds
\* the types of what that line had pushed)
C30_Witness ==
    /\ Next_is({"varlist_NAME"})
    /\ semContext.m_inFunction
    /\ semContext.m_funcArgs = None
    /\ memStack.m_pointerTypes # <<>>

====
